---- MODULE Spec2Model ----
(***************************************************************************)
(* A model of the account synchronisation and value-transfer engine of     *)
(* wallet.rs (src/account/sync/mod.rs).                                     *)
(*                                                                         *)
(* The module holds several specifications over one set of variables; each *)
(* drives one part of the program and leaves the other variables at rest:  *)
(*   EventSpec   get_balance_change_events                                 *)
(*   ExecSpec    AccountSynchronizer::execute                              *)
(*   SyncSpec    sync_address and sync_addresses_and_messages, one address *)
(*   RepairSpec  perform_sync on one address space of the account          *)
(*   TransferSpec  SyncedAccount::transfer, two concurrent calls           *)
(*   LedgerSpec  select_inputs and the essence, counted, per signer type   *)
(*   ChangeSpec  perform_transfer: the remainder deposit address           *)
(*   RepostSpec  repost_message                                            *)
(*   VerifySpec  verify_unlock_blocks                                      *)
(*   FlowSpec    transfer and perform_transfer step by step                *)
(*   EssenceSpec the values of the essence perform_transfer assembles      *)
(*   DustSpec    is_dust_allowed                                           *)
(*   LatestSpec  perform_transfer after the submission: the latest address *)
(*   SortSpec    perform_sync: the sort and dedup of the returned addresses*)
(*   SweepSpec   check_for_new_used_addresses, one batch per step (fair)   *)
(*   LockSpec    the locks of one account under concurrent operations      *)
(***************************************************************************)
EXTENDS Integers, Sequences, FiniteSets, TLC

VARIABLES
    ev,             \* get_balance_change_events: arguments, locals, result
    mqtt_enabled,   \* AccountHandle: whether MQTT monitoring is enabled
    ex,             \* AccountSynchronizer::execute: position, locals, result
    sy,             \* one address under sync_address / sync_addresses_and_messages
    rp,             \* perform_sync: one address space of the account
    tr,             \* SyncedAccount::transfer: LockedOutputs, sent inputs, the calls
    lg,             \* select_inputs and the essence by counts, per signer type
    ch,             \* perform_transfer: where the remainder goes under ChangeAddress
    rs,             \* repost_message: the stored messages and one call
    vf,             \* verify_unlock_blocks: arguments and result
    fl,             \* transfer step by step: position, account lock, steps, events
    es,             \* perform_transfer: the essence assembled from inputs and amount
    du,             \* is_dust_allowed: arguments, node answer, result
    la,             \* perform_transfer after the submission: latest address, new address
    so,             \* perform_sync: the final sort and dedup of addresses_to_save
    sw,             \* check_for_new_used_addresses: the loop, batch after batch
    lk              \* the account's locks and the operations running on it

vars == <<ev, mqtt_enabled, ex, sy, rp, tr, lg, ch, rs, vf, fl, es, du, la, so, sw, lk>>

\* What each part of the program leaves alone.
evOther == <<mqtt_enabled, ex, sy, rp, tr, lg, ch, rs, vf, fl, es, du, la, so, sw, lk>>
exOther == <<ev, sy, rp, tr, lg, ch, rs, vf, fl, es, du, la, so, sw, lk>>
syOther == <<ev, mqtt_enabled, ex, rp, tr, lg, ch, rs, vf, fl, es, du, la, so, sw, lk>>
rpOther == <<ev, mqtt_enabled, ex, sy, tr, lg, ch, rs, vf, fl, es, du, la, so, sw, lk>>
trOther == <<ev, mqtt_enabled, ex, sy, rp, lg, ch, rs, vf, fl, es, du, la, so, sw, lk>>
chOther == <<ev, mqtt_enabled, ex, sy, rp, tr, lg, rs, vf, fl, es, du, la, so, sw, lk>>
rsOther == <<ev, mqtt_enabled, ex, sy, rp, tr, lg, ch, vf, fl, es, du, la, so, sw, lk>>
vfOther == <<ev, mqtt_enabled, ex, sy, rp, tr, lg, ch, rs, fl, es, du, la, so, sw, lk>>
flOther == <<ev, mqtt_enabled, ex, sy, rp, tr, lg, ch, rs, vf, es, du, la, so, sw, lk>>
esOther == <<ev, mqtt_enabled, ex, sy, rp, tr, lg, ch, rs, vf, fl, du, la, so, sw, lk>>
duOther == <<ev, mqtt_enabled, ex, sy, rp, tr, lg, ch, rs, vf, fl, es, la, so, sw, lk>>
laOther == <<ev, mqtt_enabled, ex, sy, rp, tr, lg, ch, rs, vf, fl, es, du, so, sw, lk>>
soOther == <<ev, mqtt_enabled, ex, sy, rp, tr, lg, ch, rs, vf, fl, es, du, la, sw, lk>>
swOther == <<ev, mqtt_enabled, ex, sy, rp, tr, lg, ch, rs, vf, fl, es, du, la, so, lk>>
lkOther == <<ev, mqtt_enabled, ex, sy, rp, tr, lg, ch, rs, vf, fl, es, du, la, so, sw>>
lgOther == <<ev, mqtt_enabled, ex, sy, rp, tr, ch, rs, vf, fl, es, du, la, so, sw, lk>>

\* The parts that a specification does not drive stay at these values.
EvIdle == [pc |-> "off"]
ExIdle == [pc |-> "off"]
SyIdle == [pc |-> "off"]
RpIdle == [pc |-> "off"]
TrIdle == [pc |-> "off"]
LgIdle == [pc |-> "off"]
LkIdle == [pc |-> "off"]
SwIdle == [pc |-> "off"]
SoIdle == [pc |-> "off"]
LaIdle == [pc |-> "off"]
DuIdle == [pc |-> "off"]
EsIdle == [pc |-> "off"]
FlIdle == [pc |-> "off"]
VfIdle == [pc |-> "off"]
RsIdle == [pc |-> "off"]
ChIdle == [pc |-> "off"]

(***************************************************************************)
(* Integers.  Balances and amounts are u64 in the program and the tallies  *)
(* of get_balance_change_events and is_dust_allowed are i64.  Every amount *)
(* of the model is below 2^31 (the ledger's supply is below 2^52), so that *)
(* `as i64` keeps the value and no i64 sum wraps.                          *)
(***************************************************************************)
\* i64::unsigned_abs
UnsignedAbs(x) == IF x < 0 THEN 0 - x ELSE x

(***************************************************************************)
(* Bounds of the model.                                                    *)
(***************************************************************************)
MaxBalance == 2     \* balances handed to get_balance_change_events: 0..MaxBalance
MaxAmount == 2      \* output amounts there: 1..MaxAmount
MaxSynced == 2      \* messages one sync returns

OutputIds == {"o1", "o2"}
MessageIds == {"m1", "m2"}

NoneVal == "None"

(***************************************************************************)
(* get_balance_change_events (lines 1134-1197).                            *)
(***************************************************************************)
\* BalanceChange::spent and BalanceChange::received, with the event's message id.
BalanceChangeSpent(amount, mid) == [spent |-> amount, received |-> 0, message_id |-> mid]
BalanceChangeReceived(amount, mid) == [spent |-> 0, received |-> amount, message_id |-> mid]

\* The arguments: every old and new balance, either setting of
\* sync_spent_outputs, every map of outputs before and after the sync.
EvOutputMaps ==
    UNION {[ids -> [amount : 1..MaxAmount, is_spent : BOOLEAN]] : ids \in SUBSET OutputIds}

EvInit ==
    /\ mqtt_enabled = TRUE
    /\ lk = LkIdle
    /\ sw = SwIdle
    /\ so = SoIdle
    /\ la = LaIdle
    /\ du = DuIdle
    /\ es = EsIdle
    /\ fl = FlIdle
    /\ vf = VfIdle
    /\ rs = RsIdle
    /\ ch = ChIdle
    /\ ex = ExIdle
    /\ sy = SyIdle
    /\ rp = RpIdle
    /\ tr = TrIdle
    /\ lg = LgIdle
    /\ \E old \in 0..MaxBalance, new \in 0..MaxBalance, sso \in BOOLEAN,
       before \in SUBSET OutputIds, outs \in EvOutputMaps :
        ev = [pc |-> "loop",
              old_balance |-> old,
              new_balance |-> new,
              sync_spent_outputs |-> sso,
              before_sync_outputs |-> before,
              outputs |-> outs,
              todo |-> IF sso THEN DOMAIN outs ELSE {},
              output_change_balance |-> 0,
              emitted_event |-> FALSE,
              balance_change_events |-> <<>>]

\* One iteration of `for (output_id, output) in outputs` (lines 1150-1170); the
\* map's iteration order is unspecified, so any remaining output may come next.
EvOutput(id) ==
    /\ ev.pc = "loop"
    /\ id \in ev.todo
    /\ LET output == ev.outputs[id]
           isNew == id \notin ev.before_sync_outputs
           event == IF output.is_spent
                    THEN BalanceChangeSpent(output.amount, "Some")
                    ELSE BalanceChangeReceived(output.amount, "Some")
           delta == IF output.is_spent
                    THEN 0 - output.amount
                    ELSE output.amount
       IN ev' = [ev EXCEPT
                   !.todo = @ \ {id},
                   !.output_change_balance =
                       IF isNew THEN @ + delta ELSE @,
                   !.emitted_event = IF isNew THEN TRUE ELSE @,
                   !.balance_change_events =
                       IF isNew THEN Append(@, event) ELSE @]
    /\ UNCHANGED evOther

\* The condition under which the reconciling event is pushed (line 1178).
ReconcileNeededNoDelta(emitted_event, output_change_balance, balance_change) ==
    ~emitted_event

ReconcileNeededAlways(emitted_event, output_change_balance, balance_change) ==
    TRUE

ReconcileNeeded(emitted_event, output_change_balance, balance_change) ==
    ~emitted_event \/ output_change_balance # balance_change

\* Lines 1177-1196: the reconciling event with message_id None.
EvReconcile ==
    /\ ev.pc = "loop"
    /\ ev.todo = {}
    /\ LET balance_change == ev.new_balance - ev.old_balance
           change == ev.new_balance - ev.old_balance - ev.output_change_balance
           event == IF change > 0
                    THEN BalanceChangeReceived(change, NoneVal)
                    ELSE BalanceChangeSpent(UnsignedAbs(change), NoneVal)
       IN ev' = [ev EXCEPT
                   !.pc = "done",
                   !.balance_change_events =
                       IF ReconcileNeeded(ev.emitted_event, ev.output_change_balance,
                                          balance_change)
                       THEN Append(@, event) ELSE @]
    /\ UNCHANGED evOther

EvNext ==
    \/ \E id \in OutputIds : EvOutput(id)
    \/ EvReconcile

RECURSIVE SumReceived(_), SumSpent(_)
SumReceived(events) ==
    IF events = <<>> THEN 0 ELSE Head(events).received + SumReceived(Tail(events))
SumSpent(events) ==
    IF events = <<>> THEN 0 ELSE Head(events).spent + SumSpent(Tail(events))

(***************************************************************************)
(* AccountSynchronizer::execute (lines 1338-1445).                         *)
(***************************************************************************)
\* Option<bool> of a stored message's `confirmed`.
Confirmations == {NoneVal, "True", "False"}

\* The account's stored messages: id -> confirmed.
ExStoredMessages == UNION {[ids -> Confirmations] : ids \in SUBSET MessageIds}

\* The ids of the messages perform_sync returns: the sweep's messages that are
\* not stored (lines 719-728) and, unfiltered, the reconciliation's (line 741).
ExSyncedMessages == UNION {[1..n -> MessageIds] : n \in 0..MaxSynced}

ExInit ==
    /\ ev = EvIdle
    /\ sy = SyIdle
    /\ rp = RpIdle
    /\ tr = TrIdle
    /\ lg = LgIdle
    /\ mqtt_enabled = TRUE
    /\ lk = LkIdle
    /\ sw = SwIdle
    /\ so = SoIdle
    /\ la = LaIdle
    /\ du = DuIdle
    /\ es = EsIdle
    /\ fl = FlIdle
    /\ vf = VfIdle
    /\ rs = RsIdle
    /\ ch = ChIdle
    /\ \E stored \in ExStoredMessages, skip \in BOOLEAN :
        ex = [pc |-> "start",
              account_messages |-> stored,
              skip_persistence |-> skip,
              messages_before_sync |-> stored,
              data_messages |-> <<>>,
              data_addresses |-> FALSE,
              parsed_messages |-> <<>>,
              new_messages |-> <<>>,
              confirmation_changed_messages |-> <<>>,
              to_emit |-> <<>>,
              emitted |-> <<>>,
              return_value |-> "none"]

\* Line 1340: self.account_handle.disable_mqtt().
ExDisableMqtt ==
    /\ ex.pc = "start"
    /\ mqtt_enabled' = FALSE
    /\ ex' = [ex EXCEPT !.pc = "history"]
    /\ UNCHANGED exOther

\* Line 1342, Ok(data): get_new_history returned the synced data.
ExHistoryOk(messages, has_addresses) ==
    /\ ex.pc = "history"
    /\ ex' = [ex EXCEPT !.pc = "parse",
                        !.data_messages = messages,
                        !.data_addresses = has_addresses]
    /\ UNCHANGED <<mqtt_enabled>>
    /\ UNCHANGED exOther

\* Lines 1435-1438: get_new_history failed; the error becomes return_value.
ExHistoryErr ==
    /\ ex.pc = "history"
    /\ ex' = [ex EXCEPT !.pc = "enable", !.return_value = "Err"]
    /\ UNCHANGED <<mqtt_enabled>>
    /\ UNCHANGED exOther

\* SyncedAccountData::parse_messages (lines 1098-1131): every message is built
\* with_confirmed(Some(true)).
ParseMessages(messages) ==
    [i \in 1..Len(messages) |-> [id |-> messages[i], confirmed |-> "True"]]

\* Lines 1359-1361, parse_messages(..).await? succeeded.
ExParseOk ==
    /\ ex.pc = "parse"
    /\ ex' = [ex EXCEPT !.pc = "persist",
                        !.parsed_messages = ParseMessages(ex.data_messages)]
    /\ UNCHANGED <<mqtt_enabled>>
    /\ UNCHANGED exOther

\* A `?` inside the Ok arm (lines 1361, 1368, 1370, 1395, 1398, 1407, 1417)
\* returns the error from execute at once.
ExReturnEarly ==
    ex' = [ex EXCEPT !.pc = "returned", !.return_value = "Err"]

ExParseErr ==
    /\ ex.pc = "parse"
    /\ ex.data_messages # <<>>
    /\ ExReturnEarly
    /\ UNCHANGED <<mqtt_enabled>>
    /\ UNCHANGED exOther

\* Account::save_messages: upsert by message id.
SaveMessages(stored, parsed) ==
    [id \in DOMAIN stored \cup {parsed[i].id : i \in 1..Len(parsed)} |->
        IF \E i \in 1..Len(parsed) : parsed[i].id = id
        THEN "True"
        ELSE stored[id]]

\* Lines 1366-1371.
ExMustPersist ==
    ~ex.skip_persistence /\ (ex.data_addresses \/ ex.parsed_messages # <<>>)

\* Lines 1373-1385: the new messages and those whose confirmation changed.
NewMessages(before, parsed) ==
    SelectSeq(parsed, LAMBDA m : m.id \notin DOMAIN before)

ConfirmationChangedMessagesAnyStored(before, parsed) ==
    SelectSeq(parsed, LAMBDA m : m.id \in DOMAIN before)

ConfirmationChangedMessages(before, parsed) ==
    SelectSeq(parsed, LAMBDA m : m.id \in DOMAIN before /\ before[m.id] # m.confirmed)

\* Lines 1366-1395: persist, then compute the events (get_events).
ExPersistOk ==
    /\ ex.pc = "persist"
    /\ LET new == NewMessages(ex.messages_before_sync, ex.parsed_messages)
           changed == ConfirmationChangedMessages(ex.messages_before_sync,
                                                  ex.parsed_messages)
       IN ex' = [ex EXCEPT
                   !.pc = "emit",
                   !.account_messages =
                       IF ExMustPersist THEN SaveMessages(@, ex.parsed_messages) ELSE @,
                   !.new_messages = new,
                   !.confirmation_changed_messages = changed,
                   !.to_emit =
                       [i \in 1..Len(new) |->
                           [type |-> "NewTransaction", id |-> new[i].id]]
                       \o [i \in 1..Len(changed) |->
                           [type |-> "ConfirmationStateChange", id |-> changed[i].id]]]
    /\ UNCHANGED <<mqtt_enabled>>
    /\ UNCHANGED exOther

\* Lines 1368, 1370: save_messages or save failed.
ExPersistErr ==
    /\ ex.pc = "persist"
    /\ ExMustPersist
    /\ ExReturnEarly
    /\ UNCHANGED <<mqtt_enabled>>
    /\ UNCHANGED exOther

\* Lines 1396-1418: one event is emitted.
ExEmitOk ==
    /\ ex.pc = "emit"
    /\ ex.to_emit # <<>>
    /\ ex' = [ex EXCEPT !.to_emit = Tail(@), !.emitted = Append(@, Head(ex.to_emit))]
    /\ UNCHANGED <<mqtt_enabled>>
    /\ UNCHANGED exOther

ExEmitErr ==
    /\ ex.pc = "emit"
    /\ ex.to_emit # <<>>
    /\ ExReturnEarly
    /\ UNCHANGED <<mqtt_enabled>>
    /\ UNCHANGED exOther

\* Lines 1420-1433: Ok(synced_account) becomes return_value.
ExSynced ==
    /\ ex.pc = "emit"
    /\ ex.to_emit = <<>>
    /\ ex' = [ex EXCEPT !.pc = "enable", !.return_value = "Ok"]
    /\ UNCHANGED <<mqtt_enabled>>
    /\ UNCHANGED exOther

\* Lines 1441-1443: enable_mqtt(), then return_value is returned.
ExEnableMqtt ==
    /\ ex.pc = "enable"
    /\ mqtt_enabled' = TRUE
    /\ ex' = [ex EXCEPT !.pc = "returned"]
    /\ UNCHANGED exOther

ExNext ==
    \/ ExDisableMqtt
    \/ \E messages \in ExSyncedMessages, has_addresses \in BOOLEAN :
           ExHistoryOk(messages, has_addresses)
    \/ ExHistoryErr
    \/ ExParseOk
    \/ ExParseErr
    \/ ExPersistOk
    \/ ExPersistErr
    \/ ExEmitOk
    \/ ExEmitErr
    \/ ExSynced
    \/ ExEnableMqtt

(***************************************************************************)
(* The Output Reconciler on one address: sync_address (lines 103-201),     *)
(* used by the gap sweep and by the fixed address list, and the task of    *)
(* sync_addresses_and_messages (lines 497-624), the reconciliation of the  *)
(* stored addresses.                                                       *)
(***************************************************************************)
\* The message that created each output (AddressOutput::message_id).
MessageOf == [o \in OutputIds |-> IF o = "o1" THEN "m1" ELSE "m2"]

\* An address's outputs: OutputId -> AddressOutput.
SyOutputMaps ==
    UNION {[ids -> [is_spent : BOOLEAN, message_id : MessageIds]] : ids \in SUBSET OutputIds}

\* The outputs the wallet can hold: each with the message id the node gave.
SyStoredMaps ==
    {m \in SyOutputMaps : \A o \in DOMAIN m : m[o].message_id = MessageOf[o]}

\* What the node answers for one output id: get_output (the output, unspent or
\* spent, a 404, or another error) and get_message for the output's message.
NodeOutputAnswers == {"unspent", "spent", "404", "err"}
NodeMessageAnswers == {"found", "404", "err"}
NodeAnswers == [OutputIds -> [output : NodeOutputAnswers, message : NodeMessageAnswers]]

\* AddressOutput::from_output_response.
FromOutputResponse(o, answer) ==
    [is_spent |-> (answer = "spent"), message_id |-> MessageOf[o]]

\* Lines 125-133: an output the node did not list is marked spent.
MarkUnlistedSpent(outputs, listing) ==
    [o \in DOMAIN outputs |->
        IF o \notin listing THEN [outputs[o] EXCEPT !.is_spent = TRUE] ELSE outputs[o]]

\* Lines 136-143: the listed outputs a task is spawned for.
SyncAddressFetched(marked, listing) ==
    {o \in listing : ~(o \in DOMAIN marked /\ marked[o].is_spent)}

\* Lines 148-176: a task fails when get_output fails (a 404 included) or when
\* get_message fails with anything but a 404 (get_message, lines 95-101).
SyncAddressTaskOk(o, answers, confirmed) ==
    /\ answers[o].output \in {"unspent", "spent"}
    /\ (MessageOf[o] \in confirmed \/ answers[o].message # "err")

\* Lines 189-196: whether a failed task fails the whole call.
SyncAddressErrIsFatal(sync_spent_outputs) == sync_spent_outputs

\* sync_address: the result, the outputs it leaves in `outputs` and the ids of
\* the messages found.
SyncAddress(outputs, listing, answers, confirmed, sync_spent_outputs) ==
    LET marked == MarkUnlistedSpent(outputs, listing)
        fetched == SyncAddressFetched(marked, listing)
        good == {o \in fetched : SyncAddressTaskOk(o, answers, confirmed)}
        failed == fetched \ good
    IN  [ok |-> (failed = {} \/ ~SyncAddressErrIsFatal(sync_spent_outputs)),
         outputs |-> [o \in DOMAIN marked \cup good |->
                         IF o \in good
                         THEN FromOutputResponse(o, answers[o].output)
                         ELSE marked[o]],
         messages |-> {MessageOf[o] : o \in
                         {g \in good : MessageOf[g] \notin confirmed
                                       /\ answers[g].message = "found"}},
         changed |-> TRUE]

\* Lines 535-553: a listed output that is stored is not requested again when it
\* is stored spent and spent outputs are synced, or stored unspent and they
\* are not.
ReconcileSkipsNever(stored, o, sync_spent_outputs) ==
    FALSE

ReconcileSkips(stored, o, sync_spent_outputs) ==
    /\ o \in DOMAIN stored
    /\ IF stored[o].is_spent THEN sync_spent_outputs ELSE ~sync_spent_outputs

\* Lines 506-520: a stored unspent output the node no longer lists got pruned.
ReconcilePruned(stored, listing) ==
    {o \in DOMAIN stored : o \notin listing /\ ~stored[o].is_spent}

\* Lines 560-600: the listed outputs that are requested and what becomes of them.
ReconcileRequested(stored, listing, sync_spent_outputs) ==
    {o \in listing : ~ReconcileSkips(stored, o, sync_spent_outputs)}

\* Lines 605-618: the outputs whose message is requested.
ReconcileMessageAsked(stored, listing, answers, confirmed, sync_spent_outputs) ==
    {o \in listing :
        /\ MessageOf[o] \notin confirmed
        /\ \/ ReconcileSkips(stored, o, sync_spent_outputs)
           \/ answers[o].output \in {"unspent", "spent"}
           \/ (answers[o].output = "404" /\ o \in DOMAIN stored)}

\* The task of sync_addresses_and_messages for one address.
ReconcileAddress(stored, listing, answers, confirmed, sync_spent_outputs) ==
    LET pruned == ReconcilePruned(stored, listing)
        requested == ReconcileRequested(stored, listing, sync_spent_outputs)
        got == {o \in requested : answers[o].output \in {"unspent", "spent"}}
        gone == {o \in requested : answers[o].output = "404" /\ o \in DOMAIN stored}
        asked == ReconcileMessageAsked(stored, listing, answers, confirmed,
                                       sync_spent_outputs)
        found == {o \in asked : answers[o].message = "found"}
    IN  [ok |-> /\ \A o \in requested : answers[o].output # "err"
                /\ \A o \in asked : answers[o].message # "err",
         outputs |-> [o \in DOMAIN stored \cup got |->
                         IF o \in got THEN FromOutputResponse(o, answers[o].output)
                         ELSE IF o \in pruned \cup gone
                         THEN [stored[o] EXCEPT !.is_spent = TRUE]
                         ELSE stored[o]],
         messages |-> {MessageOf[o] : o \in found},
         changed |-> (pruned # {} \/ got # {} \/ gone # {} \/ found # {})]

\* Account::append_addresses: a returned address replaces the stored one.
AppendAddressOutputs(stored, result, returned) ==
    IF result.ok /\ returned THEN result.outputs ELSE stored

\* Whether the caller keeps the address: sync_address_list (line 288) and
\* sync_addresses_and_messages (lines 630-633).
SyReturned(path, result, return_all_addresses) ==
    IF path = "reconcile"
    THEN result.changed /\ DOMAIN result.outputs # {}
    ELSE DOMAIN result.outputs # {} \/ return_all_addresses

SyPaths == {"sweep", "list", "reconcile"}

SyNoResult == [ok |-> TRUE, outputs |-> << >>, messages |-> {}, changed |-> FALSE]

SyNoAnswers == [o \in OutputIds |-> [output |-> "404", message |-> "404"]]

SyStored(outputs) ==
    [pc |-> "stored", path |-> "none", sync_spent_outputs |-> FALSE, listing |-> {},
     answers |-> SyNoAnswers, confirmed |-> {}, result |-> SyNoResult,
     returned |-> FALSE, outputs |-> outputs]

SyInit ==
    /\ ev = EvIdle
    /\ mqtt_enabled = TRUE
    /\ lk = LkIdle
    /\ sw = SwIdle
    /\ so = SoIdle
    /\ la = LaIdle
    /\ du = DuIdle
    /\ es = EsIdle
    /\ fl = FlIdle
    /\ vf = VfIdle
    /\ rs = RsIdle
    /\ ch = ChIdle
    /\ ex = ExIdle
    /\ rp = RpIdle
    /\ tr = TrIdle
    /\ lg = LgIdle
    /\ sy = SyStored(<< >>)

\* An answer that no request can ask for is left at one value: the answers for
\* an output the node does not list, the message of an output whose message
\* is known as confirmed, and return_all_addresses in the reconciliation.
SyRequestable(path, listing, answers, confirmed, return_all_addresses) ==
    /\ \A o \in OutputIds \ listing : answers[o] = SyNoAnswers[o]
    /\ \A o \in listing : MessageOf[o] \in confirmed => answers[o].message = "404"
    /\ path = "reconcile" => ~return_all_addresses

\* One sync of the address. The gap sweep hands sync_address the outputs the
\* account holds for the address (lines 385-389), the fixed address list
\* hands it none (line 686).
SySync ==
    /\ sy.pc = "stored"
    /\ \E path \in SyPaths, sync_spent_outputs \in BOOLEAN, listing \in SUBSET OutputIds,
          answers \in NodeAnswers, confirmed \in SUBSET MessageIds,
          return_all_addresses \in BOOLEAN :
        /\ SyRequestable(path, listing, answers, confirmed, return_all_addresses)
        /\ LET given == IF path = "list" THEN << >> ELSE sy.outputs
               result == IF path = "reconcile"
                         THEN ReconcileAddress(given, listing, answers, confirmed,
                                               sync_spent_outputs)
                         ELSE SyncAddress(given, listing, answers, confirmed,
                                          sync_spent_outputs)
           IN sy' = [pc |-> "synced",
                     path |-> path,
                     sync_spent_outputs |-> sync_spent_outputs,
                     listing |-> listing,
                     answers |-> answers,
                     confirmed |-> confirmed,
                     result |-> result,
                     returned |-> SyReturned(path, result, return_all_addresses),
                     outputs |-> sy.outputs]
    /\ UNCHANGED syOther

\* The caller merges what the sync returned into the account (execute, lines
\* 1376-1395); a failed sync returns nothing.
SyAppend ==
    /\ sy.pc = "synced"
    /\ sy' = SyStored(AppendAddressOutputs(sy.outputs, sy.result, sy.returned))
    /\ UNCHANGED syOther

SyNext ==
    \/ SySync
    \/ SyAppend

(***************************************************************************)
(* perform_sync (lines 647-1025) on one address space. An address is       *)
(* key_index |-> "empty" or "used" (its outputs are empty or not). The two *)
(* spaces are handled by the same code twice and share no state, so a      *)
(* behaviour follows one of them.                                          *)
(***************************************************************************)
MaxKey == 4

KeyIndexes == 0..MaxKey

GapLimits == {1, 2}

MaxOf(S) == CHOOSE m \in S : \A x \in S : x <= m

MinOf(S) == CHOOSE m \in S : \A x \in S : m <= x

\* max_by_key(key_index).map(key_index).unwrap_or(0), lines 774-778, 787-791.
MaxKeyIndexOr0(addresses) ==
    IF DOMAIN addresses = {} THEN 0 ELSE MaxOf(DOMAIN addresses)

\* check_for_new_used_addresses, lines 351-426: the indexes synced, batch after
\* batch of gap_limit addresses until a batch holds no used address.
RECURSIVE SweepProbed(_, _, _)
SweepProbed(start, node_used, gap_limit) ==
    IF start > MaxKey THEN {}
    ELSE LET last == IF start + gap_limit - 1 > MaxKey THEN MaxKey
                     ELSE start + gap_limit - 1
             batch == start..last
         IN  IF batch \cap node_used = {} THEN batch
             ELSE batch \cup SweepProbed(start + gap_limit, node_used, gap_limit)

\* check_for_new_used_addresses: starts after the highest stored index; stops
\* at once when the signer is locked (get_address_for_sync gives None);
\* sync_address_list keeps an address that has outputs, or every address
\* with return_all_addresses.
CheckForNewUsedAddresses(account, node_used, gap_limit, signer_unlocked, return_all_addresses) ==
    LET start == IF DOMAIN account = {} THEN 0 ELSE MaxOf(DOMAIN account) + 1
        probed == IF signer_unlocked THEN SweepProbed(start, node_used, gap_limit)
                  ELSE {}
        kept == {i \in probed : i \in node_used \/ return_all_addresses}
    IN  [i \in kept |-> IF i \in node_used THEN "used" ELSE "empty"]

\* sync_addresses_and_messages on the stored addresses: an address comes back
\* when something changed and it has outputs (lines 626-634): a stored
\* address that the node now shows as used, or a used one with a changed
\* output or message.
SyncAddressesAndMessages(account, node_used, rechanged) ==
    LET back == {i \in DOMAIN account :
                    \/ (account[i] = "empty" /\ i \in node_used)
                    \/ (account[i] = "used" /\ i \in rechanged)}
    IN  [i \in back |-> "used"]

\* find_addresses_to_save, lines 1027-1060, over the found addresses in
\* key_index order; `ignored` are the unused addresses met since the last
\* used one.
RECURSIVE FindAddressesToSave(_, _, _, _)
FindAddressesToSave(account, found, todo, ignored) ==
    IF todo = {} THEN {}
    ELSE LET i == MinOf(todo)
             rest == todo \ {i}
         IN  IF i \in DOMAIN account /\ account[i] # found[i]
             THEN {i} \cup FindAddressesToSave(account, found, rest, ignored)
             ELSE IF found[i] = "empty"
             THEN FindAddressesToSave(account, found, rest, ignored \cup {i})
             ELSE ignored \cup {i} \cup FindAddressesToSave(account, found, rest, {})

\* Lines 763-828: the highest new index, the latest stored index, and the
\* restart from 0 when the space holds fewer addresses than latest + 1.
HasMissingAddresses(account) ==
    Cardinality(DOMAIN account) < MaxKeyIndexOr0(account) + 1

MaxNewIndex(account, addresses_to_save) ==
    LET max_new == MaxKeyIndexOr0(addresses_to_save)
        latest == MaxKeyIndexOr0(account)
    IN  IF HasMissingAddresses(account) /\ max_new < latest + 1
        THEN latest + 1 ELSE max_new

LatestAddressIndex(account) ==
    IF HasMissingAddresses(account) THEN 0 ELSE MaxKeyIndexOr0(account)

\* Lines 830-910: the missing addresses generated; a signer error is ignored.
MissingAddresses(account, addresses_to_save, signer_available) ==
    LET latest == LatestAddressIndex(account)
        max_new == MaxNewIndex(account, addresses_to_save)
    IN  {k \in latest..(max_new - 1) :
            /\ k \notin DOMAIN account
            /\ k \notin DOMAIN addresses_to_save
            /\ signer_available}

\* Lines 912-941: whether the latest address counts as unused. to_save are
\* the addresses to save, the generated missing ones included.
IsLatestAddressEmpty(account, addresses_to_save, to_save, internal) ==
    LET latest == LatestAddressIndex(account)
        max_new == MaxNewIndex(account, addresses_to_save)
    IN  IF latest > max_new
        THEN IF DOMAIN account = {} THEN internal
             ELSE account[MaxOf(DOMAIN account)] = "empty"
        ELSE IF DOMAIN to_save = {} THEN TRUE
             ELSE to_save[MaxOf(DOMAIN to_save)] = "empty"

\* Lines 943-1000: the index of the new unused address.
NewUnusedIndex(account, addresses_to_save) ==
    LET latest == LatestAddressIndex(account)
        max_new == MaxNewIndex(account, addresses_to_save)
    IN  (IF latest > max_new THEN latest ELSE max_new) + 1

\* Lines 746-758: the found addresses to save. For an account without any
\* address whose sync found nothing to save, discovery (return_all_addresses)
\* saves the first found public address; found addresses are in key_index
\* order (try_join_all keeps the order of the tasks).
AddressesToSave(account, internal, node_used, rechanged, gap_limit, return_all_addresses, sweep_signer, account_is_empty) ==
    LET swept == CheckForNewUsedAddresses(account, node_used, gap_limit, sweep_signer,
                                          return_all_addresses)
        synced == SyncAddressesAndMessages(account, node_used, rechanged)
        found == [i \in DOMAIN swept \cup DOMAIN synced |->
                     IF i \in DOMAIN swept THEN swept[i] ELSE synced[i]]
        saved == FindAddressesToSave(account, found, DOMAIN found, {})
        first_found == IF account_is_empty /\ saved = {} /\ return_all_addresses
                          /\ ~internal /\ DOMAIN found # {}
                       THEN {MinOf(DOMAIN found)} ELSE {}
    IN  [i \in saved \cup first_found |-> found[i]]

\* Lines 830-910: the addresses to save with the generated missing ones.
WithMissingAddresses(account, addresses_to_save, signer_available) ==
    LET missing == MissingAddresses(account, addresses_to_save, signer_available)
    IN  [i \in DOMAIN addresses_to_save \cup missing |->
            IF i \in DOMAIN addresses_to_save THEN addresses_to_save[i] ELSE "empty"]

\* Lines 1003-1011: discovery adds the first stored public address when index
\* 0 is not among the addresses to save; expect("No first address") panics
\* when the account stores no public address.
PerformSyncPanics(account, internal, node_used, rechanged, gap_limit, return_all_addresses, sweep_signer, signer_available, account_is_empty) ==
    LET addresses_to_save == AddressesToSave(account, internal, node_used, rechanged, gap_limit,
                                             return_all_addresses, sweep_signer,
                                             account_is_empty)
        to_save == WithMissingAddresses(account, addresses_to_save, signer_available)
    IN  /\ return_all_addresses
        /\ ~internal
        /\ 0 \notin DOMAIN to_save
        /\ DOMAIN account = {}

\* perform_sync for the space: the addresses of SyncedAccountData (when it
\* does not panic). The first stored public address is taken as the one with
\* the lowest index.
PerformSync(account, internal, node_used, rechanged, gap_limit, return_all_addresses, sweep_signer, signer_available, account_is_empty) ==
    LET addresses_to_save == AddressesToSave(account, internal, node_used, rechanged, gap_limit,
                                             return_all_addresses, sweep_signer,
                                             account_is_empty)
        to_save == WithMissingAddresses(account, addresses_to_save, signer_available)
        unused == IF ~IsLatestAddressEmpty(account, addresses_to_save, to_save, internal)
                     /\ signer_available
                  THEN {NewUnusedIndex(account, addresses_to_save)}
                  ELSE {}
        first == IF return_all_addresses /\ ~internal /\ 0 \notin DOMAIN to_save
                    /\ DOMAIN account # {}
                 THEN {MinOf(DOMAIN account)} ELSE {}
    IN  [i \in DOMAIN to_save \cup unused \cup first |->
            IF i \in DOMAIN to_save THEN to_save[i]
            ELSE IF i \in unused THEN "empty"
            ELSE account[i]]

\* Account::append_addresses: a returned address replaces the stored one with
\* its index or is added.
AppendAddresses(account, addresses) ==
    [i \in DOMAIN account \cup DOMAIN addresses |->
        IF i \in DOMAIN addresses THEN addresses[i] ELSE account[i]]

RpStored(internal, addresses) ==
    [pc |-> "stored", internal |-> internal, addresses |-> addresses,
     returned |-> << >>, node_used |-> {}, signer_throughout |-> FALSE,
     account_is_empty |-> FALSE, gap_limit |-> 0]

\* A new account holds its first public address and no internal address; an
\* account under discovery may hold no address at all (line 752).
RpInit ==
    /\ ev = EvIdle
    /\ mqtt_enabled = TRUE
    /\ lk = LkIdle
    /\ sw = SwIdle
    /\ so = SoIdle
    /\ la = LaIdle
    /\ du = DuIdle
    /\ es = EsIdle
    /\ fl = FlIdle
    /\ vf = VfIdle
    /\ rs = RsIdle
    /\ ch = ChIdle
    /\ ex = ExIdle
    /\ sy = SyIdle
    /\ tr = TrIdle
    /\ lg = LgIdle
    /\ \E internal \in BOOLEAN, first \in {<< >>, (0 :> "empty")} :
        /\ internal => first = << >>
        /\ rp = RpStored(internal, first)

\* One completed perform_sync. The node shows every address as used that the
\* account holds as used; no index beyond MaxKey is reached. The account
\* can be without any address only when this space has none.
RpSync ==
    /\ rp.pc = "stored"
    /\ \E node_used \in SUBSET (0..(MaxKey - 1)), rechanged \in SUBSET DOMAIN rp.addresses,
          gap_limit \in GapLimits, return_all_addresses \in BOOLEAN,
          sweep_signer \in BOOLEAN, signer_available \in BOOLEAN,
          account_is_empty \in BOOLEAN :
        /\ \A i \in DOMAIN rp.addresses : rp.addresses[i] = "used" => i \in node_used
        /\ \A i \in rechanged : rp.addresses[i] = "used"
        /\ account_is_empty => (~rp.internal /\ DOMAIN rp.addresses = {})
        /\ IF PerformSyncPanics(rp.addresses, rp.internal, node_used, rechanged,
                                gap_limit, return_all_addresses, sweep_signer,
                                signer_available, account_is_empty)
           THEN rp' = [rp EXCEPT !.pc = "panicked"]
           ELSE LET returned == PerformSync(rp.addresses, rp.internal, node_used, rechanged,
                                            gap_limit, return_all_addresses, sweep_signer,
                                            signer_available, account_is_empty)
                IN  /\ DOMAIN returned \subseteq KeyIndexes
                    /\ rp' = [pc |-> "synced", internal |-> rp.internal,
                              addresses |-> rp.addresses, returned |-> returned,
                              node_used |-> node_used,
                              signer_throughout |-> sweep_signer /\ signer_available,
                              account_is_empty |-> account_is_empty,
                              gap_limit |-> gap_limit]
    /\ UNCHANGED rpOther

\* AccountSynchronizer::execute stores what the sync returned.
RpAppend ==
    /\ rp.pc = "synced"
    /\ rp' = RpStored(rp.internal, AppendAddresses(rp.addresses, rp.returned))
    /\ UNCHANGED rpOther

RpNext ==
    \/ RpSync
    \/ RpAppend

(***************************************************************************)
(* SyncedAccount::transfer (lines 1862-2014) with select_inputs (lines     *)
(* 1511-1617) and perform_transfer (lines 2032-2588): two calls on one     *)
(* account. A call takes the LockedOutputs mutex for its preparation and   *)
(* input selection, runs perform_transfer without it, and takes it again   *)
(* for the release.                                                        *)
(***************************************************************************)
DUST_ALLOWANCE_VALUE == 1000000

DUST_DIVISOR == 100000

MAX_ALLOWED_DUST_OUTPUTS == 100

INPUT_OUTPUT_COUNT_MAX == 127

LEDGER_MAX_IN_OUTPUTS == 17

SignerTypes == {"Stronghold", "LedgerNano", "LedgerNanoSimulator"}

IsLedger(signer_type) == signer_type \in {"LedgerNano", "LedgerNanoSimulator"}

\* Lines 1518-1542: the limit of TooManyOutputs, the test for it and max_inputs.
TooManyOutputsLimit(signer_type) ==
    IF IsLedger(signer_type) THEN LEDGER_MAX_IN_OUTPUTS - 1 ELSE INPUT_OUTPUT_COUNT_MAX

IsTooManyOutputsStrict(signer_type, output_amount) ==
    output_amount > TooManyOutputsLimit(signer_type)

IsTooManyOutputs(signer_type, output_amount) ==
    output_amount >= TooManyOutputsLimit(signer_type)

MaxInputs(signer_type, output_amount) ==
    IF IsLedger(signer_type) THEN LEDGER_MAX_IN_OUTPUTS - output_amount
    ELSE INPUT_OUTPUT_COUNT_MAX

\* The signer of the account of TransferSpec.
TrSignerType == "Stronghold"

Transfers == {"t1", "t2"}

\* The addresses of the account; C0 is its latest change address, unused.
TrAccountAddresses == {"A1", "A2", "C0"}

TrLatestChangeAddress == "C0"

\* The unspent outputs of the ledger: o1..o5 on addresses of the account, f1
\* on the foreign address D2. D1 is a foreign address without outputs.
TrOutputs ==
    [o1 |-> [address |-> "A1", amount |-> 1200000, kind |-> "Single"],
     o2 |-> [address |-> "A1", amount |-> 1000000, kind |-> "Single"],
     o3 |-> [address |-> "A2", amount |-> 1000000, kind |-> "Single"],
     o4 |-> [address |-> "A2", amount |-> 1000000, kind |-> "DustAllowance"],
     o5 |-> [address |-> "A2", amount |-> 0, kind |-> "DustAllowance"],
     f1 |-> [address |-> "D2", amount |-> 1000000, kind |-> "DustAllowance"]]

TrAccountOutputIds == {o \in DOMAIN TrOutputs : TrOutputs[o].address \in TrAccountAddresses}

TransferOutput(address, amount) == [address |-> address, amount |-> amount, kind |-> "Single"]

NoInput == [some |-> FALSE, addresses |-> << >>]

PinnedInput(addresses) == [some |-> TRUE, addresses |-> addresses]

ReuseAddress == [type |-> "ReuseAddress", address |-> ""]

ChangeAddress == [type |-> "ChangeAddress", address |-> ""]

AccountAddress(address) == [type |-> "AccountAddress", address |-> address]

\* The Transfer objects the calls are made with.
TransferObjs ==
    [exact      |-> [outputs |-> <<TransferOutput("D1", 1000000)>>,
                     input |-> NoInput, remainder_value_strategy |-> ChangeAddress],
     two_dests  |-> [outputs |-> <<TransferOutput("D1", 600000), TransferOutput("D2", 600000)>>,
                     input |-> NoInput, remainder_value_strategy |-> ChangeAddress],
     to_self    |-> [outputs |-> <<TransferOutput("A1", 1500000)>>,
                     input |-> NoInput, remainder_value_strategy |-> ChangeAddress],
     two_inputs |-> [outputs |-> <<TransferOutput("D1", 2200000)>>,
                     input |-> NoInput, remainder_value_strategy |-> ReuseAddress],
     dust_beside |-> [outputs |-> <<TransferOutput("D1", 200000), TransferOutput("D2", 1000000)>>,
                      input |-> NoInput, remainder_value_strategy |-> ChangeAddress],
     dust       |-> [outputs |-> <<TransferOutput("D2", 300000)>>,
                     input |-> NoInput, remainder_value_strategy |-> ReuseAddress],
     pinned     |-> [outputs |-> <<TransferOutput("D1", 1200000)>>,
                     input |-> PinnedInput(<<[address |-> "A1", outputs |-> <<"o1">>]>>),
                     remainder_value_strategy |-> ChangeAddress],
     pinned_surplus |-> [outputs |-> <<TransferOutput("D1", 1000000)>>,
                         input |-> PinnedInput(<<[address |-> "A1", outputs |-> <<"o1">>]>>),
                         remainder_value_strategy |-> ChangeAddress],
     pinned_bad |-> [outputs |-> <<TransferOutput("D1", 1000000)>>,
                     input |-> PinnedInput(<<[address |-> "A2", outputs |-> <<"o3">>],
                                             [address |-> "D1", outputs |-> <<"o1">>]>>),
                     remainder_value_strategy |-> ChangeAddress],
     too_much   |-> [outputs |-> <<TransferOutput("D1", 9000000)>>,
                     input |-> NoInput, remainder_value_strategy |-> ChangeAddress],
     bad_target |-> [outputs |-> <<TransferOutput("D1", 1000000)>>,
                     input |-> NoInput, remainder_value_strategy |-> AccountAddress("D1")],
     bad_target_own |-> [outputs |-> <<TransferOutput("A2", 1000000)>>,
                         input |-> NoInput,
                         remainder_value_strategy |-> AccountAddress("D1")]]

RECURSIVE SumAmounts(_)
SumAmounts(outputs) ==
    IF outputs = << >> THEN 0 ELSE Head(outputs).amount + SumAmounts(Tail(outputs))

\* Transfer::amount: the sum of the transfer's outputs.
TransferAmount(obj) == SumAmounts(obj.outputs)

Destinations(obj) == {obj.outputs[i].address : i \in DOMAIN obj.outputs}

RECURSIVE SumOutputIds(_)
SumOutputIds(ids) ==
    IF ids = << >> THEN 0 ELSE TrOutputs[Head(ids)].amount + SumOutputIds(Tail(ids))

SeqToSet(q) == {q[i] : i \in DOMAIN q}

\* Address::available_outputs: the unspent outputs that no stored sent message
\* uses as input.
AvailableOutputs(sent_inputs) == TrAccountOutputIds \ sent_inputs

RECURSIVE SumOfSet(_)
SumOfSet(ids) ==
    IF ids = {} THEN 0
    ELSE LET o == CHOOSE x \in ids : TRUE
         IN  TrOutputs[o].amount + SumOfSet(ids \ {o})

\* Account::balance_internal(sent_messages).total.
BalanceTotal(sent_inputs) == SumOfSet(AvailableOutputs(sent_inputs))

\* Lines 1894-1901: a destination that belongs to the account forces ReuseAddress.
EffectiveStrategyAsGiven(obj) == obj.remainder_value_strategy

EffectiveStrategy(obj) ==
    IF Destinations(obj) \cap TrAccountAddresses # {} THEN ReuseAddress
    ELSE obj.remainder_value_strategy

AvailableInputsUnfiltered(obj, locked_outputs, sent_inputs) ==
    AvailableOutputs(sent_inputs)

\* Lines 1544-1569: the outputs input selection may choose from.
AvailableInputs(obj, locked_outputs, sent_inputs) ==
    {o \in AvailableOutputs(sent_inputs) :
        /\ \/ TrOutputs[o].address \notin Destinations(obj)
           \/ TrOutputs[o].amount <= TransferAmount(obj)
        /\ TrOutputs[o].amount > 0
        /\ o \notin SeqToSet(locked_outputs)}

RECURSIVE SeqsOfDistinct(_)
SeqsOfDistinct(S) ==
    {<< >>} \cup UNION {{<<x>> \o q : q \in SeqsOfDistinct(S \ {x})} : x \in S}

\* input_selection::select_input: inputs are accumulated until their sum
\* reaches the amount, at most max_inputs of them; the order is the
\* selector's. No such choice is the InsufficientFunds error.
SelectInput(amount, available_inputs, max_inputs) ==
    {q \in SeqsOfDistinct(available_inputs) :
        /\ q # << >>
        /\ Len(q) <= max_inputs
        /\ SumOutputIds(q) >= amount
        /\ SumOutputIds(SubSeq(q, 1, Len(q) - 1)) < amount}

\* Lines 1579-1585: the input the remainder is taken from.
InputForRemainderUnfiltered(obj, selected_outputs) ==
    <<selected_outputs[Len(selected_outputs)]>>

InputForRemainder(obj, selected_outputs) ==
    LET kept == SelectSeq(selected_outputs,
                          LAMBDA o : TrOutputs[o].address \notin Destinations(obj))
    IN  IF kept = << >> THEN << >> ELSE <<kept[Len(kept)]>>

\* Lines 1599-1614: the selected outputs grouped by address.
RECURSIVE GroupByAddress(_, _)
GroupByAddress(selected_outputs, groups) ==
    IF selected_outputs = << >> THEN groups
    ELSE LET o == Head(selected_outputs)
             at == {i \in DOMAIN groups : groups[i].address = TrOutputs[o].address}
         IN  GroupByAddress(Tail(selected_outputs),
                 IF at = {}
                 THEN Append(groups, [address |-> TrOutputs[o].address, outputs |-> <<o>>])
                 ELSE LET i == CHOOSE j \in at : TRUE
                      IN  [groups EXCEPT ![i].outputs = Append(@, o)])

TrReturn(result, locked_outputs, selected, input_addresses, remainder) ==
    [result |-> result, locked_outputs |-> locked_outputs, selected |-> selected,
     input_addresses |-> input_addresses, remainder |-> remainder]

\* select_inputs for one choice of the selector.
SelectInputsWith(obj, locked_outputs, selected_outputs) ==
    LET extended == locked_outputs \o selected_outputs
        inputs_amount == SumOutputIds(selected_outputs)
        input_for_remainder == InputForRemainder(obj, selected_outputs)
    IN  IF inputs_amount > TransferAmount(obj) /\ input_for_remainder = << >>
        THEN TrReturn("FailedToGetRemainder", extended, selected_outputs, << >>, << >>)
        ELSE TrReturn("Ok", extended, selected_outputs,
                      GroupByAddress(selected_outputs, << >>),
                      IF inputs_amount > TransferAmount(obj)
                      THEN <<[address |-> TrOutputs[input_for_remainder[1]].address,
                              amount |-> inputs_amount]>>
                      ELSE << >>)

\* select_inputs, lines 1511-1617: every return the selector allows.
SelectInputs(obj, locked_outputs, sent_inputs) ==
    IF IsTooManyOutputs(TrSignerType, Len(obj.outputs))
    THEN {TrReturn("TooManyOutputs", locked_outputs, << >>, << >>, << >>)}
    ELSE LET choices == SelectInput(TransferAmount(obj),
                                    AvailableInputs(obj, locked_outputs, sent_inputs),
                                    MaxInputs(TrSignerType, Len(obj.outputs)))
         IN  IF choices = {}
             THEN {TrReturn("InsufficientFunds", locked_outputs, << >>, << >>, << >>)}
             ELSE {SelectInputsWith(obj, locked_outputs, q) : q \in choices}

\* Lines 1937-1952: the caller's inputs are locked address by address; an
\* address that is not the account's ends the call.
RECURSIVE PinnedInputs(_, _, _)
PinnedInputs(addresses_inputs, locked_outputs, address_inputs) ==
    IF addresses_inputs = << >>
    THEN TrReturn("Ok", locked_outputs,
                  << >>, address_inputs, << >>)
    ELSE LET address_input == Head(addresses_inputs)
         IN  IF address_input.address \in TrAccountAddresses
             THEN PinnedInputs(Tail(addresses_inputs),
                               locked_outputs \o address_input.outputs,
                               Append(address_inputs, address_input))
             ELSE TrReturn("InputAddressNotFound", locked_outputs, << >>, << >>, << >>)

\* transfer up to the drop of the LockedOutputs mutex, lines 1862-1982.
TransferSelect(obj, locked_outputs, sent_inputs) ==
    LET strategy == EffectiveStrategy(obj)
    IN  IF TransferAmount(obj) > BalanceTotal(sent_inputs)
        THEN {TrReturn("InsufficientFunds", locked_outputs, << >>, << >>, << >>)}
        ELSE IF strategy.type = "AccountAddress" /\ strategy.address \notin TrAccountAddresses
        THEN {TrReturn("InvalidRemainderValueAddress", locked_outputs, << >>, << >>, << >>)}
        ELSE IF obj.input.some
        THEN {PinnedInputs(obj.input.addresses, locked_outputs, << >>)}
        ELSE SelectInputs(obj, locked_outputs, sent_inputs)

\* Lines 2057-2078: the inputs of the transaction, group after group.
RECURSIVE Utxos(_)
Utxos(input_addresses) ==
    IF input_addresses = << >> THEN << >>
    ELSE Head(input_addresses).outputs \o Utxos(Tail(input_addresses))

DustRecorder(amount, address, created) ==
    [amount |-> amount, address |-> address, created |-> created]

\* Lines 2046-2050: the transfer's outputs are recorded when the amount of the
\* whole transfer is below DUST_ALLOWANCE_VALUE.
RecordsOutput(obj, output) == TransferAmount(obj) < DUST_ALLOWANCE_VALUE

OutputRecorders(obj) ==
    LET RECURSIVE Rec(_)
        Rec(outputs) ==
            IF outputs = << >> THEN << >>
            ELSE (IF RecordsOutput(obj, Head(outputs))
                  THEN <<DustRecorder(Head(outputs).amount, Head(outputs).address, TRUE)>>
                  ELSE << >>) \o Rec(Tail(outputs))
    IN  Rec(obj.outputs)

UtxoLoopFirstOnly(utxos, transfer_amount, acc) ==
    IF utxos = << >> THEN acc
    ELSE [acc EXCEPT !.current_output_sum =
                         IF TrOutputs[Head(utxos)].amount > transfer_amount
                         THEN transfer_amount ELSE TrOutputs[Head(utxos)].amount,
                     !.remainder_value =
                         IF TrOutputs[Head(utxos)].amount > transfer_amount
                         THEN TrOutputs[Head(utxos)].amount - transfer_amount ELSE 0]

\* Lines 2100-2172: the loop over the inputs; acc holds current_output_sum,
\* remainder_value and the recorders pushed so far.
RECURSIVE UtxoLoop(_, _, _)
UtxoLoop(utxos, transfer_amount, acc) ==
    IF utxos = << >> THEN acc
    ELSE LET utxo == TrOutputs[Head(utxos)]
             consumed == IF utxo.kind = "DustAllowance" \/ utxo.amount < DUST_ALLOWANCE_VALUE
                         THEN <<DustRecorder(utxo.amount, utxo.address, FALSE)>>
                         ELSE << >>
             Left(sum) ==
                 IF sum > transfer_amount /\ sum - transfer_amount < DUST_ALLOWANCE_VALUE
                 THEN <<DustRecorder(sum - transfer_amount, utxo.address, TRUE)>>
                 ELSE << >>
             next ==
                 IF acc.current_output_sum = transfer_amount
                 THEN [current_output_sum |-> acc.current_output_sum,
                       remainder_value |-> acc.remainder_value + utxo.amount,
                       recorders |-> acc.recorders \o consumed]
                 ELSE IF acc.current_output_sum + utxo.amount > transfer_amount
                 THEN LET missing_value == transfer_amount - acc.current_output_sum
                      IN  [current_output_sum |-> acc.current_output_sum + missing_value,
                           remainder_value |-> acc.remainder_value + utxo.amount - missing_value,
                           recorders |-> acc.recorders \o consumed
                                         \o Left(acc.current_output_sum + missing_value)]
                 ELSE [current_output_sum |-> acc.current_output_sum + utxo.amount,
                       remainder_value |-> acc.remainder_value,
                       recorders |-> acc.recorders \o consumed
                                     \o Left(acc.current_output_sum + utxo.amount)]
         IN  UtxoLoop(Tail(utxos), transfer_amount, next)

RemainderDepositAddressAlwaysChange(strategy, remainder) == TrLatestChangeAddress

\* Lines 2181-2352: where the remainder goes.
RemainderDepositAddress(strategy, remainder) ==
    IF strategy.type = "AccountAddress" THEN strategy.address
    ELSE IF strategy.type = "ChangeAddress" THEN TrLatestChangeAddress
    ELSE remainder[1].address

\* perform_transfer up to the dust check: the remainder value, the address it
\* is sent to and the recorders. The remainder address is needed as soon as
\* there is a remainder value (line 2183).
PreparedTransfer(obj, input_addresses, remainder) ==
    LET looped == UtxoLoop(Utxos(input_addresses), TransferAmount(obj),
                           [current_output_sum |-> 0, remainder_value |-> 0,
                            recorders |-> OutputRecorders(obj)])
        panics == looped.remainder_value > 0 /\ remainder = << >>
        deposit == IF looped.remainder_value > 0 /\ ~panics
                   THEN <<RemainderDepositAddress(EffectiveStrategy(obj), remainder)>>
                   ELSE << >>
    IN  [panics |-> panics,
         remainder_value |-> looped.remainder_value,
         remainder_deposit_address |-> deposit,
         recorders |-> looped.recorders \o
             (IF deposit # << >> /\ looped.remainder_value < DUST_ALLOWANCE_VALUE
              THEN <<DustRecorder(looped.remainder_value, deposit[1], TRUE)>>
              ELSE << >>)]

\* Integer division of i64: the quotient is rounded towards zero.
DivI64(a, b) == IF a >= 0 THEN a \div b ELSE 0 - ((0 - a) \div b)

MinI64(a, b) == IF a < b THEN a ELSE b

\* The unspent outputs on an address, as the node and the account hold them.
OutputsOn(address) == {o \in DOMAIN TrOutputs : TrOutputs[o].address = address}

DustAllowanceBalanceOf(ids) ==
    SumOfSet({o \in ids : TrOutputs[o].kind = "DustAllowance"})

DustOutputsOf(ids) ==
    Cardinality({o \in ids : TrOutputs[o].kind = "Single"
                             /\ TrOutputs[o].amount < DUST_ALLOWANCE_VALUE})

\* The node's answer to get_address().balance(address).
NodeAddressData(address) ==
    [balance |-> SumOfSet(OutputsOn(address)),
     dust_allowed |-> DustOutputsOf(OutputsOn(address))
                        < MinI64(DivI64(DustAllowanceBalanceOf(OutputsOn(address)),
                                        DUST_DIVISOR),
                                 MAX_ALLOWED_DUST_OUTPUTS)]

RECURSIVE RecordedAllowance(_)
RecordedAllowance(outputs) ==
    IF outputs = << >> THEN 0
    ELSE (IF Head(outputs).amount >= DUST_ALLOWANCE_VALUE
          THEN (IF Head(outputs).created THEN Head(outputs).amount
                ELSE 0 - Head(outputs).amount)
          ELSE 0) + RecordedAllowance(Tail(outputs))

RECURSIVE RecordedDustOutputs(_)
RecordedDustOutputs(outputs) ==
    IF outputs = << >> THEN 0
    ELSE (IF Head(outputs).amount >= DUST_ALLOWANCE_VALUE THEN 0
          ELSE IF Head(outputs).created THEN 1 ELSE 0 - 1)
         + RecordedDustOutputs(Tail(outputs))

\* is_dust_allowed, lines 2593-2673, for the node's answer address_data and
\* the dust allowance balance and the number of dust outputs of the
\* address's unspent outputs (lines 2631-2661): TRUE for Ok, FALSE for the
\* DustError.
IsDustAllowedWith(address_data, outputs, outputs_allowance, outputs_dust) ==
    LET dust_allowance_balance == RecordedAllowance(outputs)
        dust_outputs_amount == RecordedDustOutputs(outputs)
    IN  IF /\ address_data.dust_allowed
           /\ dust_outputs_amount = 1
           /\ dust_allowance_balance >= 0
           /\ DivI64(address_data.balance, DUST_DIVISOR) < MAX_ALLOWED_DUST_OUTPUTS
        THEN TRUE
        ELSE IF /\ ~address_data.dust_allowed
                /\ dust_outputs_amount = 1
                /\ dust_allowance_balance <= 0
        THEN FALSE
        ELSE LET allowance == dust_allowance_balance + outputs_allowance
                 dust == dust_outputs_amount + outputs_dust
             IN  ~(dust > MinI64(DivI64(allowance, DUST_DIVISOR), MAX_ALLOWED_DUST_OUTPUTS))

\* is_dust_allowed for an address of the ledger of TransferSpec.
IsDustAllowed(address, outputs) ==
    IsDustAllowedWith(NodeAddressData(address), outputs,
                      DustAllowanceBalanceOf(OutputsOn(address)),
                      DustOutputsOf(OutputsOn(address)))

\* Lines 2370-2387: every address with a recorder is checked.
DustCheck(recorders) ==
    \A address \in {recorders[i].address : i \in DOMAIN recorders} :
        IsDustAllowed(address, SelectSeq(recorders, LAMBDA d : d.address = address))

\* Lines 1999-2011: for every input address one entry of LockedOutputs is
\* removed, the first that is one of the address's outputs.
RECURSIVE ReleaseLocked(_, _)
ReleaseLocked(locked_outputs, input_addresses) ==
    IF input_addresses = << >> THEN locked_outputs
    ELSE LET held == {i \in DOMAIN locked_outputs :
                         locked_outputs[i] \in SeqToSet(Head(input_addresses).outputs)}
         IN  IF held = {} THEN locked_outputs
             ELSE LET index == MinOf(held)
                  IN  ReleaseLocked(SubSeq(locked_outputs, 1, index - 1)
                                    \o SubSeq(locked_outputs, index + 1, Len(locked_outputs)),
                                    Tail(input_addresses))

TrCallIdle ==
    [pc |-> "idle", obj |-> "", result |-> "", selected |-> << >>,
     input_addresses |-> << >>, remainder |-> << >>, locked_before |-> << >>,
     locked_after |-> << >>, admitted |-> FALSE,
     post |-> "", message_id |-> "", saved |-> FALSE, probe |-> FALSE]

TrInit ==
    /\ ev = EvIdle
    /\ mqtt_enabled = TRUE
    /\ lk = LkIdle
    /\ sw = SwIdle
    /\ so = SoIdle
    /\ la = LaIdle
    /\ du = DuIdle
    /\ es = EsIdle
    /\ fl = FlIdle
    /\ vf = VfIdle
    /\ rs = RsIdle
    /\ ch = ChIdle
    /\ ex = ExIdle
    /\ sy = SyIdle
    /\ rp = RpIdle
    /\ lg = LgIdle
    /\ tr = [locked_outputs |-> << >>, sent_inputs |-> {},
             calls |-> [t \in Transfers |-> TrCallIdle]]

\* transfer, from the call to the drop of the LockedOutputs mutex or to the
\* early return.
TrSelect(t) ==
    /\ tr.calls[t].pc = "idle"
    /\ \E name \in DOMAIN TransferObjs :
        \E ret \in TransferSelect(TransferObjs[name], tr.locked_outputs, tr.sent_inputs) :
            tr' = [tr EXCEPT
                     !.locked_outputs = ret.locked_outputs,
                     !.calls[t] = [pc |-> IF ret.result = "Ok" THEN "selected" ELSE "returned",
                                   obj |-> name,
                                   result |-> IF ret.result = "Ok" THEN "" ELSE ret.result,
                                   selected |-> ret.selected,
                                   input_addresses |-> ret.input_addresses,
                                   remainder |-> ret.remainder,
                                   locked_before |-> tr.locked_outputs,
                                   locked_after |-> ret.locked_outputs,
                                   admitted |-> FALSE,
                                   post |-> "", message_id |-> "", saved |-> FALSE,
                                   probe |-> FALSE]]
    /\ UNCHANGED trOther

\* How perform_transfer ends after the dust check: an error of sign_message,
\* of verify_unlock_blocks or of finish_pow, or, after the message was
\* submitted, an error of the local steps (get_new_address,
\* from_iota_message, save_messages, save), or Ok.
TrOutcomes == {"SignerError", "VerificationError", "NodeError", "StorageError", "Ok"}

\* Whether perform_transfer came to post_message.
TrSubmitted(outcome) == outcome \in {"StorageError", "Ok"}

\* Lines 2468-2472: the id of the message is the node's answer, or the
\* locally computed one when post_message fails.
TrMessageId(post) == IF post = "Ok" THEN "post_message" ELSE "message.id"

\* perform_transfer: the dust check, then signing, verification, proof of
\* work, the submission (whose error is ignored), the spawn of the
\* confirmation probe and the storing of the message.
TrPerform(t) ==
    /\ tr.calls[t].pc = "selected"
    /\ LET call == tr.calls[t]
           prepared == PreparedTransfer(TransferObjs[call.obj], call.input_addresses,
                                        call.remainder)
       IN  IF prepared.panics
           THEN tr' = [tr EXCEPT !.calls[t].pc = "panicked"]
           ELSE IF ~DustCheck(prepared.recorders)
           THEN tr' = [tr EXCEPT !.calls[t].pc = "performed",
                                 !.calls[t].result = "DustError"]
           ELSE \E outcome \in TrOutcomes, post \in {"Ok", "Err"} :
                    /\ ~TrSubmitted(outcome) => post = "Ok"
                    /\ tr' = [tr EXCEPT
                             !.calls[t].pc = "performed",
                             !.calls[t].result = outcome,
                             !.calls[t].admitted = TRUE,
                             !.calls[t].post = IF TrSubmitted(outcome) THEN post ELSE "",
                             !.calls[t].message_id =
                                 IF TrSubmitted(outcome) THEN TrMessageId(post) ELSE "",
                             !.calls[t].probe = TrSubmitted(outcome),
                             !.calls[t].saved = (outcome = "Ok"),
                             !.sent_inputs =
                                 IF outcome = "Ok"
                                 THEN @ \cup SeqToSet(Utxos(call.input_addresses))
                                 ELSE @]
    /\ UNCHANGED trOther

\* transfer after perform_transfer: the release of the locked outputs.
TrRelease(t) ==
    /\ tr.calls[t].pc = "performed"
    /\ tr' = [tr EXCEPT
                !.locked_outputs = ReleaseLocked(@, tr.calls[t].input_addresses),
                !.calls[t].pc = "returned"]
    /\ UNCHANGED trOther

TrNext ==
    \E t \in Transfers :
        \/ TrSelect(t)
        \/ TrPerform(t)
        \/ TrRelease(t)

(***************************************************************************)
(* select_inputs and the essence of perform_transfer by counts: how many   *)
(* outputs the transfer has, how many inputs the selector takes, whether   *)
(* there is a remainder, for each signer type.                             *)
(***************************************************************************)
MaxOutputAmount == 128

MaxAvailableInputs == 17

LgInit ==
    /\ ev = EvIdle
    /\ mqtt_enabled = TRUE
    /\ lk = LkIdle
    /\ sw = SwIdle
    /\ so = SoIdle
    /\ la = LaIdle
    /\ du = DuIdle
    /\ es = EsIdle
    /\ fl = FlIdle
    /\ vf = VfIdle
    /\ rs = RsIdle
    /\ ch = ChIdle
    /\ ex = ExIdle
    /\ sy = SyIdle
    /\ rp = RpIdle
    /\ tr = TrIdle
    /\ \E signer_type \in SignerTypes, output_amount \in 1..MaxOutputAmount,
          available \in 1..MaxAvailableInputs :
        lg = [pc |-> "start", signer_type |-> signer_type,
              output_amount |-> output_amount, available |-> available,
              result |-> "", limit |-> 0, locked |-> 0, selected |-> 0,
              has_remainder |-> FALSE, essence_inputs |-> 0, essence_outputs |-> 0]

\* select_inputs, lines 1511-1617: TooManyOutputs before anything is locked;
\* else select_input takes at most max_inputs of the available inputs, which
\* are then locked; their sum may exceed the amount.
LgSelectInputs ==
    /\ lg.pc = "start"
    /\ IF IsTooManyOutputs(lg.signer_type, lg.output_amount)
       THEN lg' = [lg EXCEPT !.pc = "returned", !.result = "TooManyOutputs",
                             !.limit = TooManyOutputsLimit(lg.signer_type)]
       ELSE \E selected \in 1..lg.available, has_remainder \in BOOLEAN :
                /\ selected <= MaxInputs(lg.signer_type, lg.output_amount)
                /\ lg' = [lg EXCEPT !.pc = "selected", !.result = "Ok",
                                    !.locked = selected, !.selected = selected,
                                    !.has_remainder = has_remainder]
    /\ UNCHANGED lgOther

\* perform_transfer up to sign_message: the essence has the selected inputs,
\* the transfer's outputs and, with a remainder, the remainder output (lines
\* 2353-2355).
LgSign ==
    /\ lg.pc = "selected"
    /\ lg' = [lg EXCEPT !.pc = "signing",
                        !.essence_inputs = lg.selected,
                        !.essence_outputs = lg.output_amount
                                            + (IF lg.has_remainder THEN 1 ELSE 0)]
    /\ UNCHANGED lgOther

LgNext ==
    \/ LgSelectInputs
    \/ LgSign

(***************************************************************************)
(* perform_transfer, lines 2180-2359: the address that receives the        *)
(* remainder. The internal (change) addresses of the account are           *)
(* key_index |-> "empty" or "used"; the other addresses do not matter      *)
(* here.                                                                   *)
(***************************************************************************)
MaxChangeIndex == 3

RemainderValues == {0, 900000}

RemainderValueStrategies == {"ChangeAddress", "ReuseAddress", "AccountAddress"}

\* Account::latest_change_address: the internal address with the highest
\* key_index, if any. Lines 2203-2334: the key_index of the change address.
ChangeAddressKeyIndexAlwaysNew(internal_addresses) ==
    IF DOMAIN internal_addresses = {} THEN 0
    ELSE MaxOf(DOMAIN internal_addresses) + 1

ChangeAddressKeyIndex(internal_addresses) ==
    IF DOMAIN internal_addresses = {} THEN 0
    ELSE LET latest == MaxOf(DOMAIN internal_addresses)
         IN  IF internal_addresses[latest] = "empty" THEN latest ELSE latest + 1

\* Whether get_new_change_address is called on the way (it can fail): always
\* for a new address, and for the reused one with a Ledger signer.
ChangeAddressIsGenerated(internal_addresses, signer_type) ==
    \/ ChangeAddressKeyIndex(internal_addresses) \notin DOMAIN internal_addresses
    \/ IsLedger(signer_type)

\* The change address as it is appended: the stored one as it is, or a new
\* one without outputs.
ChangeAddressOf(internal_addresses) ==
    LET key_index == ChangeAddressKeyIndex(internal_addresses)
    IN  key_index :> (IF key_index \in DOMAIN internal_addresses
                      THEN internal_addresses[key_index] ELSE "empty")

ChNoTransfer ==
    [result |-> "", strategy |-> "", remainder_value |-> 0, deposit |-> NoneVal,
     before |-> << >>]

ChInit ==
    /\ ev = EvIdle
    /\ mqtt_enabled = TRUE
    /\ lk = LkIdle
    /\ sw = SwIdle
    /\ so = SoIdle
    /\ la = LaIdle
    /\ du = DuIdle
    /\ es = EsIdle
    /\ fl = FlIdle
    /\ vf = VfIdle
    /\ rs = RsIdle
    /\ ex = ExIdle
    /\ sy = SyIdle
    /\ rp = RpIdle
    /\ tr = TrIdle
    /\ lg = LgIdle
    /\ \E signer_type \in SignerTypes :
        ch = [signer_type |-> signer_type, internal_addresses |-> << >>,
              saved |-> << >>, change_addresses_to_sync |-> {},
              transfer |-> ChNoTransfer]

\* The remainder step of one perform_transfer. get_new_change_address and
\* account.save can fail; each error returns at once (`?`).
ChRemainder ==
    \E strategy \in RemainderValueStrategies, remainder_value \in RemainderValues,
       outcome \in {"Ok", "AddressError", "StorageError"} :
        LET before == ch.internal_addresses
            transfer == [result |-> outcome, strategy |-> strategy,
                         remainder_value |-> remainder_value, deposit |-> NoneVal,
                         before |-> before]
        IN  /\ ChangeAddressKeyIndex(before) <= MaxChangeIndex
            /\ IF remainder_value > 0 /\ strategy = "ChangeAddress"
               THEN \/ /\ outcome = "AddressError"
                       /\ ChangeAddressIsGenerated(before, ch.signer_type)
                       /\ ch' = [ch EXCEPT !.transfer = transfer]
                    \/ /\ outcome = "StorageError"
                       /\ ch' = [ch EXCEPT
                              !.internal_addresses =
                                  AppendAddresses(before, ChangeAddressOf(before)),
                              !.transfer = transfer]
                    \/ /\ outcome = "Ok"
                       /\ ch' = [ch EXCEPT
                              !.internal_addresses =
                                  AppendAddresses(before, ChangeAddressOf(before)),
                              !.saved = AppendAddresses(before, ChangeAddressOf(before)),
                              !.change_addresses_to_sync =
                                  @ \cup {ChangeAddressKeyIndex(before)},
                              !.transfer = [transfer EXCEPT
                                  !.deposit = ChangeAddressKeyIndex(before)]]
               ELSE /\ outcome = "Ok"
                    /\ ch' = [ch EXCEPT !.transfer =
                                  [transfer EXCEPT !.deposit =
                                      IF remainder_value > 0 THEN strategy ELSE NoneVal]]
    /\ UNCHANGED chOther

\* A later sync finds outputs on a stored change address and stores it
\* (AccountSynchronizer::execute: append_addresses and save).
ChSynced ==
    /\ \E i \in DOMAIN ch.internal_addresses :
        /\ ch.internal_addresses[i] = "empty"
        /\ ch' = [ch EXCEPT !.internal_addresses = AppendAddresses(@, i :> "used"),
                            !.saved = AppendAddresses(ch.internal_addresses, i :> "used"),
                            !.transfer = ChNoTransfer]
    /\ UNCHANGED chOther

ChNext ==
    \/ ChRemainder
    \/ ChSynced

(***************************************************************************)
(* repost_message (lines 2681-2811). A stored message is its payload kind  *)
(* and, for a transaction, the ids of the outputs its essence consumes.    *)
(* The whole call runs under the account's write lock.                     *)
(***************************************************************************)
MaxReposted == 1

RepostActions == {"Retry", "Reattach", "Promote"}

RsNewIds == <<"m3", "m4", "m5">>

\* The ids a caller may pass: the stored ones and one that is never stored.
RsMessageIds == MessageIds \cup {"m9"}

RsTransaction(inputs) == [payload |-> "Transaction", inputs |-> inputs]

RsNoPayload == [payload |-> "None", inputs |-> << >>]

\* The message ids made by reposting so far, and the next one.
RsReposted(messages) == {i \in DOMAIN RsNewIds : RsNewIds[i] \in DOMAIN messages}

RsNextId(messages) == RsNewIds[Cardinality(RsReposted(messages)) + 1]

\* Lines 2700-2711: the output is spent, or the node does not know it
\* ("output not found").
IsSpentAnswerStrict(answer) == answer = "spent"

IsSpentAnswer(answer) == answer \in {"spent", "404"}

\* Lines 2696-2726: the loop over the inputs of the essence. Another error of
\* get_output returns at once; spent_input is looked at after the loop.
RECURSIVE RepostCheckInputs(_, _, _, _)
RepostCheckInputs(inputs, answers, i, spent_input) ==
    IF i > Len(inputs)
    THEN IF spent_input THEN "NoNeedPromoteOrReattach" ELSE "continue"
    ELSE IF answers[inputs[i]] = "err" THEN "NodeError"
    ELSE RepostCheckInputs(inputs, answers, i + 1,
                           spent_input \/ IsSpentAnswer(answers[inputs[i]]))

\* Lines 2754-2765 and 2777-2788: the local rebuild needs a transaction
\* payload.
RepostFallbackNever(message) == FALSE

RepostFallback(message) == message.payload = "Transaction"

\* Account::save_messages with one message.
RepostSaveMessage(messages, id, message) ==
    [m \in DOMAIN messages \cup {id} |-> IF m = id THEN message ELSE messages[m]]

RsReturn(result, rpc_called, messages, message) ==
    [result |-> result, rpc_called |-> rpc_called, messages |-> messages,
     message |-> message]

\* Lines 2792-2805: the posted message is parsed (from_iota_message), saved
\* and returned; each step can fail and returns its error.
RepostStore(messages, posted, local) ==
    IF local = "ParseError" THEN RsReturn("ParseError", TRUE, messages, NoneVal)
    ELSE IF local = "StorageError" THEN RsReturn("StorageError", TRUE, messages, NoneVal)
    ELSE RsReturn("Ok", TRUE, RepostSaveMessage(messages, RsNextId(messages), posted),
                  RsNextId(messages))

\* Lines 2743-2791: the node's RPC for the action. promote's error is
\* returned as it is; a message made by promote carries no payload. retry and
\* reattach return NoNeedPromoteOrReattach as it is and rebuild the message
\* locally (finish_message, which can fail) on another error.
RepostRpc(messages, message_id, action, rpc, local) ==
    LET message == messages[message_id]
        failed == IF rpc = "NoNeedPromoteOrReattach" THEN rpc ELSE "NodeError"
    IN  IF action = "Promote"
        THEN IF rpc = "Ok" THEN RepostStore(messages, RsNoPayload, local)
             ELSE RsReturn(failed, TRUE, messages, NoneVal)
        ELSE IF rpc = "Ok" THEN RepostStore(messages, message, local)
        ELSE IF rpc = "NoNeedPromoteOrReattach"
        THEN RsReturn(failed, TRUE, messages, NoneVal)
        ELSE IF ~RepostFallback(message)
        THEN RsReturn("MessageNotFound", TRUE, messages, NoneVal)
        ELSE IF local = "FinishError"
        THEN RsReturn("NodeError", TRUE, messages, NoneVal)
        ELSE RepostStore(messages, message, local)

\* repost_message.
RepostMessage(messages, message_id, action, client_ok, answers, included, rpc, local) ==
    IF message_id \notin DOMAIN messages
    THEN RsReturn("MessageNotFound", FALSE, messages, NoneVal)
    ELSE IF ~client_ok THEN RsReturn("ClientError", FALSE, messages, NoneVal)
    ELSE LET message == messages[message_id]
             checked == IF message.payload = "Transaction"
                        THEN RepostCheckInputs(message.inputs, answers, 1, FALSE)
                        ELSE "continue"
         IN  IF checked # "continue" THEN RsReturn(checked, FALSE, messages, NoneVal)
             ELSE IF message.payload = "Transaction" /\ included
             THEN RsReturn("NoNeedPromoteOrReattach", FALSE, messages, NoneVal)
             ELSE RepostRpc(messages, message_id, action, rpc, local)

RsNoCall ==
    [message_id |-> NoneVal, action |-> NoneVal, client_ok |-> TRUE,
     answers |-> << >>, included |-> FALSE, rpc |-> NoneVal, local |-> NoneVal,
     before |-> << >>, result |-> NoneVal, rpc_called |-> FALSE, message |-> NoneVal]

\* The account stores one transaction message with one or two inputs and
\* one message without a transaction.
RsInit ==
    /\ ev = EvIdle
    /\ mqtt_enabled = TRUE
    /\ lk = LkIdle
    /\ sw = SwIdle
    /\ so = SoIdle
    /\ la = LaIdle
    /\ du = DuIdle
    /\ es = EsIdle
    /\ fl = FlIdle
    /\ vf = VfIdle
    /\ ex = ExIdle
    /\ sy = SyIdle
    /\ rp = RpIdle
    /\ tr = TrIdle
    /\ lg = LgIdle
    /\ ch = ChIdle
    /\ \E inputs \in {<<"o1">>, <<"o1", "o2">>} :
        rs = [pc |-> "idle",
              messages |-> ("m1" :> RsTransaction(inputs) @@ "m2" :> RsNoPayload),
              call |-> RsNoCall]

RsRepost ==
    /\ rs.pc = "idle"
    /\ Cardinality(RsReposted(rs.messages)) < MaxReposted
    /\ \E message_id \in RsMessageIds, action \in RepostActions, client_ok \in BOOLEAN,
          answers \in [OutputIds -> NodeOutputAnswers], included \in BOOLEAN,
          rpc \in {"Ok", "NoNeedPromoteOrReattach", "Err"},
          local \in {"Ok", "FinishError", "ParseError", "StorageError"} :
        LET r == RepostMessage(rs.messages, message_id, action, client_ok, answers,
                               included, rpc, local)
        IN  rs' = [pc |-> "returned", messages |-> r.messages,
                   call |-> [message_id |-> message_id, action |-> action,
                             client_ok |-> client_ok, answers |-> answers,
                             included |-> included, rpc |-> rpc, local |-> local,
                             before |-> rs.messages, result |-> r.result,
                             rpc_called |-> r.rpc_called, message |-> r.message]]
    /\ UNCHANGED rsOther

\* The caller has the result; the account is free for the next call.
RsReturned ==
    /\ rs.pc = "returned"
    /\ rs' = [rs EXCEPT !.pc = "idle", !.call = RsNoCall]
    /\ UNCHANGED rsOther

RsNext ==
    \/ RsRepost
    \/ RsReturned

(***************************************************************************)
(* verify_unlock_blocks and verify_signature (lines 2813-2838). An input   *)
(* is its serialized form (`key`, the order of pack_new) and the address   *)
(* that owns it. A signature block is the address of its public key and    *)
(* what it signs; a reference block is the index it points to.             *)
(***************************************************************************)
MaxVerifiedInputs == 2

MaxUnlockBlocks == 2

VfAddresses == {"A1", "A2"}

VfInputs ==
    {q \in UNION {[1..n -> [key : 1..MaxVerifiedInputs, address : VfAddresses]] :
                      n \in 1..MaxVerifiedInputs} :
        \A i, j \in DOMAIN q : i # j => q[i].key # q[j].key}

VfSignature(address, signed) == [type |-> "Signature", address |-> address, signed |-> signed]

VfReference(index) == [type |-> "Reference", index |-> index]

VfBlocks ==
    {VfSignature(a, h) : a \in VfAddresses, h \in {"essence_hash", "other"}}
        \cup {VfReference(i) : i \in 0..(MaxUnlockBlocks - 1)}

VfUnlockBlocks == UNION {[1..n -> VfBlocks] : n \in 0..MaxUnlockBlocks}

\* inputs.sort_by(pack_new), line 2818: insertion into the sorted rest.
RECURSIVE VfInsert(_, _)
VfInsert(input, sorted) ==
    IF sorted = << >> THEN <<input>>
    ELSE IF input.key <= Head(sorted).key THEN <<input>> \o sorted
    ELSE <<Head(sorted)>> \o VfInsert(input, Tail(sorted))

SortInputsAsGiven(inputs) == inputs

RECURSIVE SortInputs(_)
SortInputs(inputs) ==
    IF inputs = << >> THEN << >>
    ELSE VfInsert(Head(inputs), SortInputs(Tail(inputs)))

VfNoBlock == [type |-> "None"]

\* UnlockBlocks::get(index), index from 0: the block at the index, a
\* reference replaced by the block it points to; no block past the end.
UnlockBlocksGet(unlock_blocks, index) ==
    IF index + 1 \notin DOMAIN unlock_blocks THEN VfNoBlock
    ELSE LET block == unlock_blocks[index + 1]
         IN  IF block.type # "Reference" THEN block
             ELSE IF block.index + 1 \notin DOMAIN unlock_blocks THEN VfNoBlock
             ELSE unlock_blocks[block.index + 1]

\* Address::verify: the signature is by the key of the address and over
\* the essence hash.
AddressVerify(address, block) ==
    block.address = address /\ block.signed = "essence_hash"

\* verify_signature, lines 2827-2838.
VerifySignature(address, unlock_blocks, index) ==
    LET block == UnlockBlocksGet(unlock_blocks, index)
    IN  IF block.type # "Signature" THEN "MissingUnlockBlock"
        ELSE IF AddressVerify(address, block) THEN "Ok"
        ELSE "InvalidSignature"

\* The loop of lines 2821-2823 from position i (from 1) of the sorted
\* inputs: the first error ends it.
RECURSIVE VerifyFrom(_, _, _)
VerifyFrom(sorted, unlock_blocks, i) ==
    IF i > Len(sorted) THEN "Ok"
    ELSE LET res == VerifySignature(sorted[i].address, unlock_blocks, i - 1)
         IN  IF res # "Ok" THEN res ELSE VerifyFrom(sorted, unlock_blocks, i + 1)

VerifyUnlockBlocks(unlock_blocks, inputs) ==
    VerifyFrom(SortInputs(inputs), unlock_blocks, 1)

VfInit ==
    /\ ev = EvIdle
    /\ mqtt_enabled = TRUE
    /\ lk = LkIdle
    /\ sw = SwIdle
    /\ so = SoIdle
    /\ la = LaIdle
    /\ du = DuIdle
    /\ es = EsIdle
    /\ fl = FlIdle
    /\ ex = ExIdle
    /\ sy = SyIdle
    /\ rp = RpIdle
    /\ tr = TrIdle
    /\ lg = LgIdle
    /\ ch = ChIdle
    /\ rs = RsIdle
    /\ \E inputs \in VfInputs, unlock_blocks \in VfUnlockBlocks :
        vf = [pc |-> "called", inputs |-> inputs, unlock_blocks |-> unlock_blocks,
              result |-> NoneVal]

VfVerify ==
    /\ vf.pc = "called"
    /\ vf' = [vf EXCEPT !.pc = "returned",
                        !.result = VerifyUnlockBlocks(vf.unlock_blocks, vf.inputs)]
    /\ UNCHANGED vfOther

VfNext ==
    \/ VfVerify

(***************************************************************************)
(* transfer (lines 1862-2014) and perform_transfer (lines 2032-2588) step  *)
(* by step: which account lock the task holds, the steps taken, the        *)
(* progress events emitted, and every wait on the node or on the signer    *)
(* with the lock held during it. The values of the transfer are left out:  *)
(* what matters here is whether there is a remainder (remainder_value > 0),*)
(* whether the inputs are pinned, the remainder strategy, whether the dust *)
(* recorders are empty, and whether the latest change address is unused.   *)
(***************************************************************************)
FlProgramSignFirst == <<"transfer", "route", "sign", "dust", "verify", "pow", "post", "store">>

\* The positions of the code in the order of the source.
FlProgram == <<"transfer", "route", "dust", "sign", "verify", "pow", "post", "store">>

FlAfter(pc) == FlProgram[(CHOOSE i \in DOMAIN FlProgram : FlProgram[i] = pc) + 1]

FlStrategies == {"ReuseAddress", "ChangeAddress", "AccountAddress"}

\* The account before the call: the internal addresses in memory and
\* persisted, and change_addresses_to_sync.
FlAccount == [internal |-> 1, saved |-> 1, change_addresses_to_sync |-> {}]

FlInit ==
    /\ ev = EvIdle
    /\ mqtt_enabled = TRUE
    /\ lk = LkIdle
    /\ sw = SwIdle
    /\ so = SoIdle
    /\ la = LaIdle
    /\ du = DuIdle
    /\ es = EsIdle
    /\ ex = ExIdle
    /\ sy = SyIdle
    /\ rp = RpIdle
    /\ tr = TrIdle
    /\ lg = LgIdle
    /\ ch = ChIdle
    /\ rs = RsIdle
    /\ vf = VfIdle
    /\ \E pinned \in BOOLEAN, remainder \in BOOLEAN, strategy \in FlStrategies,
          recorded \in BOOLEAN, latest_unused \in BOOLEAN :
        fl = [pc |-> "transfer", pinned |-> pinned, remainder |-> remainder,
              strategy |-> strategy, recorded |-> recorded,
              latest_unused |-> latest_unused, lock |-> "none",
              steps |-> << >>, events |-> << >>, waits |-> {},
              account |-> FlAccount, result |-> NoneVal]

FlGoOn(f) == [f EXCEPT !.pc = FlAfter(fl.pc)]

FlReturn(f, result) == [f EXCEPT !.pc = "returned", !.lock = "none", !.result = result]

FlWait(on, call) == [on |-> on, call |-> call, lock |-> fl.lock]

\* transfer, lines 1864-1983: under the read lock; SelectingInputs is
\* emitted on the automatic path only (line 1955).
FlSelect ==
    /\ fl.pc = "transfer"
    /\ \E result \in {"Ok", "InsufficientFunds"} :
        LET f == [fl EXCEPT !.steps = Append(@, "input_selection"),
                            !.events = IF fl.pinned THEN @ ELSE Append(@, "SelectingInputs")]
        IN  fl' = IF result = "Ok" THEN FlGoOn(f) ELSE FlReturn(f, result)
    /\ UNCHANGED flOther

\* The ChangeAddress branch, lines 2202-2345.
FlChangeAddress(f, outcome) ==
    LET derived == ~fl.latest_unused
        event == [f EXCEPT !.events = Append(@, "GeneratingRemainderDepositAddress")]
        appended == [event EXCEPT !.account.internal =
                                      IF derived THEN @ + 1 ELSE @]
        stored == [appended EXCEPT !.account.saved = appended.account.internal,
                                   !.account.change_addresses_to_sync = @ \cup {"change"}]
    IN  IF outcome = "AddressError" /\ derived THEN FlReturn(f, "AddressError")
        ELSE IF outcome = "StorageError" THEN FlReturn(appended, "StorageError")
        ELSE FlGoOn(stored)

\* perform_transfer, lines 2175-2359: the write lock is taken, the
\* remainder is routed.
FlRoute ==
    /\ fl.pc = "route"
    /\ \E outcome \in {"Ok", "AddressError", "StorageError"} :
        LET f == [fl EXCEPT !.lock = "write"]
        IN  fl' = IF ~fl.remainder THEN FlGoOn(f)
                  ELSE IF fl.pinned
                      THEN [f EXCEPT !.pc = "panicked", !.lock = "none"]
                  ELSE IF fl.strategy = "ChangeAddress" THEN FlChangeAddress(f, outcome)
                  ELSE FlGoOn(f)
    /\ UNCHANGED flOther

\* Lines 2372-2387: is_dust_allowed asks the node for each recorded
\* address.
FlDust ==
    /\ fl.pc = "dust"
    /\ \E result \in {"Ok", "DustError", "NodeError"} :
        LET f == [fl EXCEPT !.steps = Append(@, "dust_admission"),
                            !.waits = IF fl.recorded
                                          THEN @ \cup {FlWait("node", "is_dust_allowed")}
                                          ELSE @]
        IN  fl' = IF result = "Ok" \/ ~fl.recorded THEN FlGoOn(f) ELSE FlReturn(f, result)
    /\ UNCHANGED flOther

\* Lines 2408-2446.
FlSign ==
    /\ fl.pc = "sign"
    /\ \E result \in {"Ok", "SignerError"} :
        LET f == [fl EXCEPT !.events = @ \o <<"PreparedTransaction", "SigningTransaction">>,
                            !.steps = Append(@, "sign_message"),
                            !.waits = @ \cup {FlWait("signer", "sign_message")}]
        IN  fl' = IF result = "Ok" THEN FlGoOn(f) ELSE FlReturn(f, result)
    /\ UNCHANGED flOther

\* Lines 2448-2459: after the verification the account is dropped.
FlVerify ==
    /\ fl.pc = "verify"
    /\ \E result \in {"Ok", "VerificationError"} :
        LET f == [fl EXCEPT !.steps = Append(@, "verify_unlock_blocks")]
        IN  fl' = IF result = "Ok"
                      THEN FlGoOn([f EXCEPT !.events = Append(@, "PerformingPoW"),
                                            !.lock = "none"])
                  ELSE FlReturn(f, result)
    /\ UNCHANGED flOther

\* Lines 2461-2466.
FlPow ==
    /\ fl.pc = "pow"
    /\ \E result \in {"Ok", "NodeError"} :
        LET f == [fl EXCEPT !.steps = Append(@, "finish_pow"),
                            !.waits = @ \cup {FlWait("node", "finish_pow")}]
        IN  fl' = IF result = "Ok"
                      THEN FlGoOn([f EXCEPT !.events = Append(@, "Broadcasting")])
                  ELSE FlReturn(f, result)
    /\ UNCHANGED flOther

\* Lines 2468-2472: the error of post_message is ignored.
FlPost ==
    /\ fl.pc = "post"
    /\ fl' = FlGoOn([fl EXCEPT !.steps = Append(@, "post_message"),
                               !.waits = @ \cup {FlWait("node", "post_message")}])
    /\ UNCHANGED flOther

\* Lines 2505-2562: the message is stored under the write lock.
FlStore ==
    /\ fl.pc = "store"
    /\ \E result \in {"Ok", "StorageError"} :
        fl' = FlReturn([fl EXCEPT !.lock = "write"], result)
    /\ UNCHANGED flOther

FlNext ==
    \/ FlSelect
    \/ FlRoute
    \/ FlDust
    \/ FlSign
    \/ FlVerify
    \/ FlPow
    \/ FlPost
    \/ FlStore

(***************************************************************************)
(* The values of the essence of perform_transfer (lines 2080-2173 and      *)
(* 2180-2359): the inputs in the order they are processed, the outputs of  *)
(* the transfer, the remainder the loop computes and the remainder output. *)
(***************************************************************************)
EsTransferAmounts == {200000, 1000000, 1200000, 2000000, 2200000, 2500000, 3200000, 4200000}

\* The transfer's outputs: one, or two that split the amount.
EsOutputs(amount) == {<<amount>>, <<amount - 100000, 100000>>}

RECURSIVE EsSum(_)
EsSum(amounts) == IF amounts = << >> THEN 0 ELSE Head(amounts) + EsSum(Tail(amounts))

EsInit ==
    /\ ev = EvIdle
    /\ mqtt_enabled = TRUE
    /\ lk = LkIdle
    /\ sw = SwIdle
    /\ so = SoIdle
    /\ la = LaIdle
    /\ du = DuIdle
    /\ ex = ExIdle
    /\ sy = SyIdle
    /\ rp = RpIdle
    /\ tr = TrIdle
    /\ lg = LgIdle
    /\ ch = ChIdle
    /\ rs = RsIdle
    /\ vf = VfIdle
    /\ fl = FlIdle
    /\ \E utxos \in SeqsOfDistinct(TrAccountOutputIds) \ {<< >>},
          amount \in EsTransferAmounts :
        \E outputs \in EsOutputs(amount) :
            es = [pc |-> "called", utxos |-> utxos, outputs |-> outputs,
                  remainder_value |-> 0, outputs_for_essence |-> << >>]

\* Lines 2080-2094 push the transfer's outputs, lines 2098-2173 compute
\* remainder_value, lines 2182 and 2354 push the remainder output.
EsAssemble ==
    /\ es.pc = "called"
    /\ LET looped == UtxoLoop(es.utxos, EsSum(es.outputs),
                              [current_output_sum |-> 0, remainder_value |-> 0,
                               recorders |-> << >>])
       IN  es' = [es EXCEPT
                    !.pc = "assembled",
                    !.remainder_value = looped.remainder_value,
                    !.outputs_for_essence =
                        es.outputs \o (IF looped.remainder_value > 0
                                       THEN <<looped.remainder_value>> ELSE << >>)]
    /\ UNCHANGED esOther

EsNext ==
    \/ EsAssemble

(***************************************************************************)
(* is_dust_allowed (lines 2593-2673) on its own: the outputs the           *)
(* transaction creates or consumes on one address, the node's answer for   *)
(* the address, and the address's unspent outputs as the account holds     *)
(* them (or, for an address that is not the account's, as find_outputs     *)
(* returns them).                                                          *)
(***************************************************************************)
MaxRecorded == 2

MaxAddressDust == 10

DuAmounts == {500000, 1000000}

\* The recorders of one address: perform_transfer records a created
\* output only below DUST_ALLOWANCE_VALUE (lines 2047, 2155, 2168, 2362).
DuRecorded ==
    {q \in UNION {[1..n -> [amount : DuAmounts, address : {"A"}, created : BOOLEAN]] :
                      n \in 1..MaxRecorded} :
        \A i \in DOMAIN q : q[i].created => q[i].amount < DUST_ALLOWANCE_VALUE}

\* The unspent outputs of the address: so many dust outputs of 500000 and
\* so many dust allowance outputs of DUST_ALLOWANCE_VALUE.
DuAddressOutputs == [dust : 0..MaxAddressDust, allowance : 0..1]

DuConsumed(outputs, amount) ==
    Len(SelectSeq(outputs, LAMBDA d : ~d.created /\ d.amount = amount))

DuInit ==
    /\ ev = EvIdle
    /\ mqtt_enabled = TRUE
    /\ lk = LkIdle
    /\ sw = SwIdle
    /\ so = SoIdle
    /\ la = LaIdle
    /\ ex = ExIdle
    /\ sy = SyIdle
    /\ rp = RpIdle
    /\ tr = TrIdle
    /\ lg = LgIdle
    /\ ch = ChIdle
    /\ rs = RsIdle
    /\ vf = VfIdle
    /\ fl = FlIdle
    /\ es = EsIdle
    /\ \E outputs \in DuRecorded, dust_allowed \in BOOLEAN,
          address_outputs \in DuAddressOutputs :
        /\ DuConsumed(outputs, 500000) <= address_outputs.dust
        /\ DuConsumed(outputs, 1000000) <= address_outputs.allowance
        /\ du = [pc |-> "called", outputs |-> outputs,
                 address_data |->
                     [balance |-> address_outputs.dust * 500000
                                  + address_outputs.allowance * DUST_ALLOWANCE_VALUE,
                      dust_allowed |-> dust_allowed],
                 address_outputs |-> address_outputs, result |-> NoneVal]

DuCheck ==
    /\ du.pc = "called"
    /\ du' = [du EXCEPT
                !.pc = "returned",
                !.result = IF IsDustAllowedWith(du.address_data, du.outputs,
                                                du.address_outputs.allowance
                                                    * DUST_ALLOWANCE_VALUE,
                                                du.address_outputs.dust)
                           THEN "Ok" ELSE "DustError"]
    /\ UNCHANGED duOther

DuNext ==
    \/ DuCheck

(***************************************************************************)
(* perform_transfer after the submission, lines 2505-2559: a new address   *)
(* is generated when the latest address of the account received something. *)
(* The public addresses of the account are those of key index 0..latest;   *)
(* the destinations and the remainder deposit address are addresses the    *)
(* account has, or foreign ones.                                           *)
(***************************************************************************)
MaxLatest == 2

LaPublic(key_index) == [owner |-> "account", internal |-> FALSE, key_index |-> key_index]

LaChange == [owner |-> "account", internal |-> TRUE, key_index |-> 0]

LaForeign == [owner |-> "foreign", internal |-> FALSE, key_index |-> 0]

LaKnown(latest) == {LaPublic(i) : i \in 0..latest} \cup {LaChange, LaForeign}

NeedsNewAddressOutputsOnly(latest_address, outputs, remainder_value_deposit_address) ==
    latest_address \in outputs

\* Lines 2509-2513.
NeedsNewAddress(latest_address, outputs, remainder_value_deposit_address) ==
    \/ latest_address \in outputs
    \/ remainder_value_deposit_address = <<latest_address>>

LaInit ==
    /\ ev = EvIdle
    /\ mqtt_enabled = TRUE
    /\ lk = LkIdle
    /\ sw = SwIdle
    /\ so = SoIdle
    /\ ex = ExIdle
    /\ sy = SyIdle
    /\ rp = RpIdle
    /\ tr = TrIdle
    /\ lg = LgIdle
    /\ ch = ChIdle
    /\ rs = RsIdle
    /\ vf = VfIdle
    /\ fl = FlIdle
    /\ es = EsIdle
    /\ du = DuIdle
    /\ \E latest \in 0..MaxLatest :
        \E outputs \in (SUBSET LaKnown(latest)) \ {{}},
           deposit \in {<< >>} \cup {<<a>> : a \in LaKnown(latest)} :
            la = [pc |-> "submitted", latest_before |-> latest,
                  latest |-> latest, saved_latest |-> latest,
                  outputs |-> outputs,
                  remainder_value_deposit_address |-> deposit,
                  generated |-> FALSE, result |-> NoneVal]

\* Lines 2505-2559: get_new_address derives the public address after the
\* latest; the account is saved when an address was generated.
LaPostSubmit ==
    /\ la.pc = "submitted"
    /\ \E outcome \in {"Ok", "AddressError", "StorageError"} :
        LET needed == NeedsNewAddress(LaPublic(la.latest), la.outputs,
                                      la.remainder_value_deposit_address)
        IN  la' = IF needed /\ outcome = "AddressError"
                  THEN [la EXCEPT !.pc = "returned", !.result = outcome]
                  ELSE [la EXCEPT
                          !.pc = "returned",
                          !.result = outcome,
                          !.generated = needed,
                          !.latest = IF needed THEN @ + 1 ELSE @,
                          !.saved_latest = IF needed /\ outcome = "Ok" THEN @ + 1 ELSE @]
    /\ UNCHANGED laOther

LaNext ==
    \/ LaPostSubmit

(***************************************************************************)
(* The end of perform_sync, lines 1014-1017: addresses_to_save, with the   *)
(* addresses of both spaces, is sorted twice and deduplicated. An address  *)
(* is its (internal, key_index). The entries pushed before are guarded     *)
(* against repetition (lines 733, 837, 877, 1003), so the list starts      *)
(* without duplicates.                                                     *)
(***************************************************************************)
MaxSortKey == 2

MaxSorted == 3

SoAddresses == [internal : BOOLEAN, key_index : 0..MaxSortKey]

SoLists ==
    {q \in UNION {[1..n -> SoAddresses] : n \in 1..MaxSorted} :
        \A i, j \in DOMAIN q : i # j => q[i] # q[j]}

KeyInternal(a) == IF a.internal THEN 1 ELSE 0

KeyKeyIndex(a) == a.key_index

\* sort_unstable_by_key: some ordering by the key; the order of entries
\* with equal keys is not specified.
SortKey(a, key) == IF key = "internal" THEN KeyInternal(a) ELSE KeyKeyIndex(a)

SortUnstableByKey(list, key) ==
    {[i \in DOMAIN list |-> list[p[i]]] :
        p \in {p \in Permutations(DOMAIN list) :
                  \A i, j \in DOMAIN list :
                      i < j => SortKey(list[p[i]], key) <= SortKey(list[p[j]], key)}}

\* Vec::dedup: consecutive equal entries are reduced to the first.
RECURSIVE Dedup(_)
Dedup(list) ==
    IF Len(list) <= 1 THEN list
    ELSE IF list[1] = list[2] THEN Dedup(Tail(list))
    ELSE <<list[1]>> \o Dedup(Tail(list))

SoInit ==
    /\ ev = EvIdle
    /\ mqtt_enabled = TRUE
    /\ lk = LkIdle
    /\ sw = SwIdle
    /\ ex = ExIdle
    /\ sy = SyIdle
    /\ rp = RpIdle
    /\ tr = TrIdle
    /\ lg = LgIdle
    /\ ch = ChIdle
    /\ rs = RsIdle
    /\ vf = VfIdle
    /\ fl = FlIdle
    /\ es = EsIdle
    /\ du = DuIdle
    /\ la = LaIdle
    /\ \E list \in SoLists :
        so = [pc |-> "to_sort", addresses_to_save |-> list, addresses |-> << >>]

\* Lines 1014-1024.
SoSort ==
    /\ so.pc = "to_sort"
    /\ \E by_internal \in SortUnstableByKey(so.addresses_to_save, "internal") :
        \E by_key_index \in SortUnstableByKey(by_internal, "key_index") :
            so' = [so EXCEPT !.pc = "returned", !.addresses = Dedup(by_key_index)]
    /\ UNCHANGED soOther

SoNext ==
    \/ SoSort

(***************************************************************************)
(* check_for_new_used_addresses (lines 312-429) on one address space, one  *)
(* pass of its loop per step. The account's addresses of the space are the *)
(* set of their key indexes; node_used are the indexes on which the node   *)
(* reports outputs. Whether the signer is locked is asked in every pass.   *)
(***************************************************************************)
MaxSweepKey == 3

MaxStoredKey == 1

MaxGapLimit == 2

\* No pass starts beyond this index: the last used index is at most
\* MaxSweepKey, so the pass after it starts at most MaxGapLimit further.
MaxSweepStart == 8

\* Lines 322-338.
SweepStart(account) == IF account = {} THEN 0 ELSE MaxOf(account) + 1

BatchIsEmptyNever(batch, node_used) == FALSE

\* Lines 411-414: no message found and no address of the batch has outputs.
BatchIsEmpty(batch, node_used) == batch \cap node_used = {}

SwInit ==
    /\ ev = EvIdle
    /\ mqtt_enabled = TRUE
    /\ lk = LkIdle
    /\ ex = ExIdle
    /\ sy = SyIdle
    /\ rp = RpIdle
    /\ tr = TrIdle
    /\ lg = LgIdle
    /\ ch = ChIdle
    /\ rs = RsIdle
    /\ vf = VfIdle
    /\ fl = FlIdle
    /\ es = EsIdle
    /\ du = DuIdle
    /\ la = LaIdle
    /\ so = SoIdle
    /\ \E account \in SUBSET (0..MaxStoredKey), node_used \in SUBSET (0..MaxSweepKey),
          gap_limit \in 1..MaxGapLimit, return_all_addresses \in BOOLEAN :
        sw = [pc |-> "loop", account |-> account, node_used |-> node_used,
              gap_limit |-> gap_limit, return_all_addresses |-> return_all_addresses,
              address_index_to_start_from |-> SweepStart(account),
              batches |-> << >>, generated_addresses |-> {}, locked |-> FALSE]

\* One pass of the loop, lines 348-426: the batch is generated (a locked
\* signer ends the sweep), synced, and the loop ends on an empty batch.
SwBatch ==
    /\ sw.pc = "loop"
    /\ sw.address_index_to_start_from <= MaxSweepStart
    /\ \E address_generation_locked \in BOOLEAN :
        LET start == sw.address_index_to_start_from
            batch == start..(start + sw.gap_limit - 1)
            kept == {i \in batch : i \in sw.node_used \/ sw.return_all_addresses}
        IN  sw' = IF address_generation_locked
                  THEN [sw EXCEPT !.pc = "returned", !.locked = TRUE]
                  ELSE [sw EXCEPT
                          !.pc = IF BatchIsEmpty(batch, sw.node_used) THEN "returned"
                                 ELSE "loop",
                          !.address_index_to_start_from = start + sw.gap_limit,
                          !.batches = Append(@, batch),
                          !.generated_addresses = @ \cup kept]
    /\ UNCHANGED swOther

SwNext ==
    \/ SwBatch

EventSpec == EvInit /\ [][EvNext]_vars

ExecSpec == ExInit /\ [][ExNext]_vars
SyncSpec == SyInit /\ [][SyNext]_vars
RepairSpec == RpInit /\ [][RpNext]_vars
TransferSpec == TrInit /\ [][TrNext]_vars
LedgerSpec == LgInit /\ [][LgNext]_vars
ChangeSpec == ChInit /\ [][ChNext]_vars
RepostSpec == RsInit /\ [][RsNext]_vars
VerifySpec == VfInit /\ [][VfNext]_vars
FlowSpec == FlInit /\ [][FlNext]_vars
EssenceSpec == EsInit /\ [][EsNext]_vars
DustSpec == DuInit /\ [][DuNext]_vars
LatestSpec == LaInit /\ [][LaNext]_vars
SortSpec == SoInit /\ [][SoNext]_vars
SweepSpec == SwInit /\ [][SwNext]_vars /\ WF_vars(SwNext)

C10_MqttReenabledOnReturn ==
    /\ ex.pc \in {"history", "parse", "persist", "emit", "enable"} => ~mqtt_enabled
    /\ ex.pc = "returned" => mqtt_enabled

RpMerged == AppendAddresses(rp.addresses, rp.returned)

\* The space as known before the new unused address: stored addresses merged
\* with the returned addresses that have outputs.
RpKnown ==
    AppendAddresses(rp.addresses,
                    [i \in {j \in DOMAIN rp.returned : rp.returned[j] = "used"} |-> "used"])

C3_TrailingUnusedAddress ==
    (rp.pc = "synced" /\ rp.signer_throughout /\ DOMAIN RpMerged # {}) =>
        /\ RpMerged[MaxOf(DOMAIN RpMerged)] = "empty"
        /\ (DOMAIN RpKnown # {} /\ RpKnown[MaxOf(DOMAIN RpKnown)] = "used") =>
               LET next == MaxOf(DOMAIN RpKnown) + 1
               IN  /\ next \in DOMAIN rp.returned
                   /\ rp.returned[next] = "empty"
                   /\ \A i \in DOMAIN rp.returned : i <= next

(***************************************************************************)
(* C4: after every completed sync the key indexes of the space (stored     *)
(* merged with returned) are 0..N-1 with none missing. Read for the syncs  *)
(* in which the signer was available throughout.                           *)
(***************************************************************************)
C4_ContiguousKeyIndexes ==
    (rp.pc = "synced" /\ rp.signer_throughout) =>
        DOMAIN RpMerged = 0..(Cardinality(DOMAIN RpMerged) - 1)

\* The outputs a call uses as inputs, and whether it is between its input
\* selection and its release.
TrInputs(t) == SeqToSet(Utxos(tr.calls[t].input_addresses))

TrInFlight(t) == tr.calls[t].pc \in {"selected", "performed"}

(***************************************************************************)
(* C1: two transfers on the account that are both between input selection  *)
(* and release use disjoint sets of outputs as inputs.                     *)
(***************************************************************************)
C1_ConcurrentInputsDisjoint ==
    \A t1, t2 \in Transfers :
        (t1 # t2 /\ TrInFlight(t1) /\ TrInFlight(t2)) => TrInputs(t1) \cap TrInputs(t2) = {}

\* The state of an address after the call's transaction is confirmed: the
\* outputs it keeps and the amounts of the Single outputs it receives.
TrPrepared(t) ==
    PreparedTransfer(TransferObjs[tr.calls[t].obj], tr.calls[t].input_addresses,
                     tr.calls[t].remainder)

TrTouched(t) ==
    Destinations(TransferObjs[tr.calls[t].obj])
        \cup SeqToSet(TrPrepared(t).remainder_deposit_address)
        \cup {TrOutputs[o].address : o \in TrInputs(t)}

TrProjectedDust(t, address) ==
    LET outputs == TransferObjs[tr.calls[t].obj].outputs
        prepared == TrPrepared(t)
    IN  DustOutputsOf(OutputsOn(address) \ TrInputs(t))
        + Cardinality({i \in DOMAIN outputs :
                          /\ outputs[i].address = address
                          /\ outputs[i].kind = "Single"
                          /\ outputs[i].amount < DUST_ALLOWANCE_VALUE})
        + (IF /\ prepared.remainder_deposit_address = <<address>>
              /\ prepared.remainder_value < DUST_ALLOWANCE_VALUE
           THEN 1 ELSE 0)

TrProjectedAllowance(t, address) ==
    DustAllowanceBalanceOf(OutputsOn(address) \ TrInputs(t))

(***************************************************************************)
(* C5: for a transfer that passed the dust check and reached signing,      *)
(* every address that receives an output or loses an input has, once the   *)
(* transaction is confirmed, dust_count <= min(dust_allowance_balance /    *)
(* 100_000, 100).                                                          *)
(***************************************************************************)
C5_DustAdmissionSound ==
    \A t \in Transfers :
        tr.calls[t].admitted =>
            \A address \in TrTouched(t) :
                TrProjectedDust(t, address)
                    <= MinI64(DivI64(TrProjectedAllowance(t, address), DUST_DIVISOR),
                              MAX_ALLOWED_DUST_OUTPUTS)

(***************************************************************************)
(* C6: when every call has returned and the calls that returned got past   *)
(* input selection, LockedOutputs is empty: each output a transfer locked  *)
(* has been removed again.                                                 *)
(***************************************************************************)
C6_LockedOutputsReleased ==
    (/\ \A t \in Transfers : tr.calls[t].pc \in {"idle", "returned"}
     /\ \A t \in Transfers :
            tr.calls[t].pc = "returned" => tr.calls[t].input_addresses # << >>)
        => tr.locked_outputs = << >>

TrValidationErrors ==
    {"InsufficientFunds", "TooManyOutputs", "InvalidRemainderValueAddress",
     "InputAddressNotFound", "FailedToGetRemainder"}

(***************************************************************************)
(* C7: a transfer that fails with InsufficientFunds, TooManyOutputs,       *)
(* InvalidRemainderValueAddress, InputAddressNotFound or                   *)
(* FailedToGetRemainder leaves LockedOutputs as it was at the call.        *)
(***************************************************************************)
C7_ValidationErrorKeepsLockedOutputs ==
    \A t \in Transfers :
        (tr.calls[t].pc = "returned" /\ tr.calls[t].result \in TrValidationErrors)
            => tr.calls[t].locked_after = tr.calls[t].locked_before

\* The selected outputs that lie on no destination of the call's transfer.
TrOffDestination(t) ==
    SelectSeq(tr.calls[t].selected,
              LAMBDA o : TrOutputs[o].address \notin Destinations(TransferObjs[tr.calls[t].obj]))

(***************************************************************************)
(* C9: when the selected inputs sum to more than the transfer amount, the  *)
(* remainder's source address is the address of the last selected input    *)
(* that lies on no destination, hence never a destination; when every      *)
(* selected input lies on a destination the selection fails with           *)
(* FailedToGetRemainder.                                                   *)
(***************************************************************************)
C9_RemainderSourceAddress ==
    \A t \in Transfers :
        LET call == tr.calls[t]
            obj == TransferObjs[call.obj]
        IN  (/\ call.pc # "idle"
             /\ call.selected # << >>
             /\ SumOutputIds(call.selected) > TransferAmount(obj))
            => IF TrOffDestination(t) = << >>
               THEN call.result = "FailedToGetRemainder"
               ELSE /\ call.result # "FailedToGetRemainder"
                    /\ Len(call.remainder) = 1
                    /\ call.remainder[1].address
                         = TrOutputs[TrOffDestination(t)[Len(TrOffDestination(t))]].address
                    /\ call.remainder[1].address \notin Destinations(obj)

\* A remainder was produced although the last selected input lies on a
\* destination, and in another call the selection failed for want of an
\* input off the destinations.
C9_Witness ==
    \E t1, t2 \in Transfers :
        /\ tr.calls[t1].pc # "idle"
        /\ tr.calls[t1].remainder # << >>
        /\ TrOutputs[tr.calls[t1].selected[Len(tr.calls[t1].selected)]].address
             \in Destinations(TransferObjs[tr.calls[t1].obj])
        /\ tr.calls[t2].result = "FailedToGetRemainder"

(***************************************************************************)
(* C11: an output stored as unspent that the node no longer lists for its  *)
(* address is in the address the sync returns, with is_spent = true and    *)
(* the message_id it was stored with; for the gap sweep, the fixed address *)
(* list and the reconciliation.                                            *)
(***************************************************************************)
C11_PruneInference ==
    (sy.pc = "synced" /\ sy.result.ok) =>
        \A o \in DOMAIN sy.outputs :
            (~sy.outputs[o].is_spent /\ o \notin sy.listing)
                => /\ sy.returned
                   /\ o \in DOMAIN sy.result.outputs
                   /\ sy.result.outputs[o]
                        = [is_spent |-> TRUE, message_id |-> sy.outputs[o].message_id]

\* The call ran perform_transfer to its end or to an error.
TrPerformed(t) ==
    tr.calls[t].pc \in {"performed", "returned"} /\ tr.calls[t].input_addresses # << >>

\* The outputs of the transfer below DUST_ALLOWANCE_VALUE.
TrDustOutputs(obj) ==
    {i \in DOMAIN obj.outputs :
        obj.outputs[i].kind = "Single" /\ obj.outputs[i].amount < DUST_ALLOWANCE_VALUE}

(***************************************************************************)
(* C12: a transfer whose only dust output goes to an address for which the *)
(* node reports dust_allowed = false, and which adds no dust allowance to  *)
(* that address, fails with DustError before the signer is called.         *)
(***************************************************************************)
C12_DustRejected ==
    \A t \in Transfers :
        LET obj == TransferObjs[tr.calls[t].obj]
        IN  (/\ TrPerformed(t)
             /\ Cardinality(TrDustOutputs(obj)) = 1
             /\ \A i \in TrDustOutputs(obj) :
                    /\ ~NodeAddressData(obj.outputs[i].address).dust_allowed
                    /\ \A j \in DOMAIN obj.outputs :
                           obj.outputs[j].address = obj.outputs[i].address
                               => obj.outputs[j].kind # "DustAllowance")
            => (tr.calls[t].result = "DustError" /\ ~tr.calls[t].admitted)

C14_LedgerEssenceSize ==
    (lg.pc = "signing" /\ lg.signer_type \in {"LedgerNano", "LedgerNanoSimulator"})
        => lg.essence_inputs + lg.essence_outputs <= 17

(***************************************************************************)
(* C15: a gap-limit sweep of an account without addresses, with the signer *)
(* available, when the node shows outputs only at external index k with    *)
(* k < gap_limit, returns the external addresses 0..k+1, k used and k+1    *)
(* unused, and exactly one internal address, index 0, unused.              *)
(***************************************************************************)
C15_GapLimitSweep ==
    (rp.pc = "synced" /\ rp.signer_throughout /\ DOMAIN rp.addresses = {}) =>
        /\ (rp.internal /\ rp.node_used = {})
               => rp.returned = (0 :> "empty")
        /\ (~rp.internal /\ rp.account_is_empty)
               => \A k \in rp.node_used :
                      (rp.node_used = {k} /\ k < rp.gap_limit)
                          => /\ DOMAIN rp.returned = 0..(k + 1)
                             /\ rp.returned[k] = "used"
                             /\ rp.returned[k + 1] = "empty"

(***************************************************************************)
(* C16: when perform_transfer has a remainder and the strategy is          *)
(* ChangeAddress, the remainder goes to a new internal address with        *)
(* key_index 0 if the account has no change address, to the latest change  *)
(* address if that has no outputs, and else to a new internal address with *)
(* key_index latest + 1; the address is in the account, the account is     *)
(* saved with it, and it is in change_addresses_to_sync.                   *)
(***************************************************************************)
C16_ChangeAddressRouting ==
    LET t == ch.transfer
    IN  (t.result = "Ok" /\ t.strategy = "ChangeAddress" /\ t.remainder_value > 0) =>
            /\ (DOMAIN t.before = {}) => t.deposit = 0
            /\ (DOMAIN t.before # {}) =>
                   LET latest == MaxOf(DOMAIN t.before)
                   IN  /\ t.before[latest] = "empty" => t.deposit = latest
                       /\ t.before[latest] = "used" => t.deposit = latest + 1
            /\ t.deposit \in DOMAIN ch.internal_addresses
            /\ t.deposit \in DOMAIN ch.saved
            /\ ch.saved = ch.internal_addresses
            /\ t.deposit \in ch.change_addresses_to_sync

\* A remainder went to the unused latest change address (index 1, after the
\* address with index 0 got outputs).
C16_Witness ==
    /\ ch.transfer.result = "Ok"
    /\ ch.transfer.strategy = "ChangeAddress"
    /\ ch.transfer.remainder_value > 0
    /\ ch.transfer.before = (0 :> "used" @@ 1 :> "empty")
    /\ ch.transfer.deposit = 1

\* The call was on a stored transaction message.
RsOnTransaction ==
    /\ rs.pc = "returned"
    /\ rs.call.message_id \in DOMAIN rs.call.before
    /\ rs.call.before[rs.call.message_id].payload = "Transaction"

\* The node answered an output lookup for input i of the message: spent or not found.
RsSpentInputs ==
    {i \in DOMAIN rs.call.before[rs.call.message_id].inputs :
        rs.call.answers[rs.call.before[rs.call.message_id].inputs[i]] \in {"spent", "404"}}

\* The output lookups that fail with another error.
RsFailedLookups ==
    {i \in DOMAIN rs.call.before[rs.call.message_id].inputs :
        rs.call.answers[rs.call.before[rs.call.message_id].inputs[i]] = "err"}

RsNoNeed ==
    /\ rs.call.result = "NoNeedPromoteOrReattach"
    /\ ~rs.call.rpc_called
    /\ rs.messages = rs.call.before

(***************************************************************************)
(* C17 as stated: repost with any action on a stored transaction message   *)
(* (the node client being available) returns NoNeedPromoteOrReattach       *)
(* without calling the node's RPC and without changing the stored messages *)
(* whenever the node reports an input as spent or not found, or the        *)
(* inclusion lookup succeeds.                                              *)
(***************************************************************************)
C17_RepostNoNeed ==
    (RsOnTransaction /\ rs.call.client_ok /\ (RsSpentInputs # {} \/ rs.call.included))
        => RsNoNeed

(***************************************************************************)
(* C17 amended: the same, when the node client is available and no output  *)
(* lookup of the inputs fails with another error; such a failure ends the  *)
(* call with that error, also without RPC and without a change.            *)
(***************************************************************************)
C17_RepostNoNeedAmended ==
    (RsOnTransaction /\ (RsSpentInputs # {} \/ rs.call.included)) =>
        /\ (rs.call.client_ok /\ RsFailedLookups = {}) => RsNoNeed
        /\ (rs.call.client_ok /\ RsFailedLookups # {})
               => (/\ rs.call.result = "NodeError"
                   /\ ~rs.call.rpc_called
                   /\ rs.messages = rs.call.before)

\* A repost of a two-input message, the second input not found by the node,
\* returned NoNeedPromoteOrReattach.
C17_Witness ==
    /\ RsOnTransaction
    /\ rs.call.client_ok
    /\ RsSpentInputs = {2}
    /\ RsFailedLookups = {}
    /\ ~rs.call.included
    /\ RsNoNeed

(***************************************************************************)
(* C20: in repost, when the node's retry or reattach RPC fails with an     *)
(* error other than NoNeedPromoteOrReattach and the stored message has a   *)
(* transaction payload, the payload is rebuilt into a new message locally  *)
(* and (these local steps succeeding) that message is saved to the account *)
(* and returned; when the RPC fails with NoNeedPromoteOrReattach that      *)
(* error is returned and nothing is saved; repost of a message id that is  *)
(* not stored returns MessageNotFound.                                     *)
(***************************************************************************)
C20_RepostFallback ==
    rs.pc = "returned" =>
        LET call == rs.call
            stored == call.message_id \in DOMAIN call.before
        IN  /\ ~stored => (call.result = "MessageNotFound" /\ rs.messages = call.before)
            /\ (stored /\ call.rpc_called /\ call.action \in {"Retry", "Reattach"}) =>
                   /\ call.rpc = "NoNeedPromoteOrReattach"
                          => (/\ call.result = "NoNeedPromoteOrReattach"
                              /\ rs.messages = call.before)
                   /\ (/\ call.rpc = "Err"
                       /\ call.before[call.message_id].payload = "Transaction"
                       /\ call.local = "Ok")
                          => (/\ call.result = "Ok"
                              /\ call.message \notin DOMAIN call.before
                              /\ DOMAIN rs.messages = DOMAIN call.before \cup {call.message}
                              /\ rs.messages[call.message] = call.before[call.message_id]
                              /\ \A m \in DOMAIN call.before :
                                     rs.messages[m] = call.before[m])

\* A retry failed at the node with another error and the transaction was
\* rebuilt, saved and returned.
C20_Witness ==
    /\ rs.pc = "returned"
    /\ rs.call.action = "Retry"
    /\ rs.call.rpc_called
    /\ rs.call.rpc = "Err"
    /\ rs.call.result = "Ok"
    /\ rs.call.message \in DOMAIN rs.messages
    /\ rs.messages[rs.call.message].payload = "Transaction"

\* The call was made with the strategy AccountAddress(a), a not an address
\* of the account.
TrForeignRemainderTarget(t) ==
    /\ tr.calls[t].pc # "idle"
    /\ TransferObjs[tr.calls[t].obj].remainder_value_strategy.type = "AccountAddress"
    /\ TransferObjs[tr.calls[t].obj].remainder_value_strategy.address
           \notin TrAccountAddresses

(***************************************************************************)
(* C18 as stated: a transfer whose remainder strategy is AccountAddress(a), *)
(* a not an address of the account, fails with                             *)
(* InvalidRemainderValueAddress, whatever its destinations (owned ones     *)
(* included).                                                              *)
(***************************************************************************)
C18_InvalidRemainderValueAddress ==
    \A t \in Transfers :
        TrForeignRemainderTarget(t)
            => tr.calls[t].result = "InvalidRemainderValueAddress"

(***************************************************************************)
(* C18 amended: such a transfer fails with InvalidRemainderValueAddress    *)
(* when none of its destinations is an address of the account (its amount  *)
(* is within the balance in every state here, so InsufficientFunds does    *)
(* not come first); when a destination is an address of the                *)
(* account the strategy has become ReuseAddress before the test and the    *)
(* transfer does not fail with InvalidRemainderValueAddress.               *)
(***************************************************************************)
C18_InvalidRemainderValueAddressAmended ==
    \A t \in Transfers :
        TrForeignRemainderTarget(t) =>
            IF Destinations(TransferObjs[tr.calls[t].obj]) \cap TrAccountAddresses = {}
            THEN tr.calls[t].result = "InvalidRemainderValueAddress"
            ELSE tr.calls[t].result # "InvalidRemainderValueAddress"

\* A transfer to a foreign address with a foreign remainder target was
\* rejected.
C18_Witness ==
    \E t \in Transfers :
        /\ TrForeignRemainderTarget(t)
        /\ Destinations(TransferObjs[tr.calls[t].obj]) \cap TrAccountAddresses = {}
        /\ tr.calls[t].pc = "returned"
        /\ tr.calls[t].result = "InvalidRemainderValueAddress"

(***************************************************************************)
(* C19: if the node's post_message fails after proof of work (and the      *)
(* local steps after it succeed), transfer returns Ok: the message carries *)
(* the locally computed id, is saved to the account's messages, the        *)
(* confirmation probe is spawned and the outputs of the transfer are       *)
(* released from LockedOutputs (no other transfer being under way,         *)
(* LockedOutputs is empty again).                                          *)
(***************************************************************************)
C19_PostMessageFailureAbsorbed ==
    \A t \in Transfers :
        (/\ tr.calls[t].pc = "returned"
         /\ tr.calls[t].post = "Err"
         /\ tr.calls[t].result # "StorageError"
         /\ \A u \in Transfers \ {t} : tr.calls[u].pc = "idle")
            => /\ tr.calls[t].result = "Ok"
               /\ tr.calls[t].message_id = "message.id"
               /\ tr.calls[t].saved
               /\ tr.calls[t].probe
               /\ tr.locked_outputs = << >>

\* The outputs get_balance_change_events emits an event for: with
\* sync_spent_outputs, those that were not there before the sync.
EvNewOutputs ==
    IF ev.sync_spent_outputs
    THEN {id \in DOMAIN ev.outputs : id \notin ev.before_sync_outputs}
    ELSE {}

\* What the per-output events account for: received minus spent amounts.
RECURSIVE EvExplained(_)
EvExplained(ids) ==
    IF ids = {} THEN 0
    ELSE LET id == CHOOSE x \in ids : TRUE
         IN  (IF ev.outputs[id].is_spent THEN 0 - ev.outputs[id].amount
              ELSE ev.outputs[id].amount) + EvExplained(ids \ {id})

EvEndsWithReconciling ==
    /\ ev.balance_change_events # << >>
    /\ ev.balance_change_events[Len(ev.balance_change_events)].message_id = NoneVal

(***************************************************************************)
(* C21 as stated: for an address whose balance changed, the events         *)
(* computed for it always end with one reconciling event with message_id   *)
(* None, in both settings of sync_spent_outputs, also when the per-output  *)
(* events account for the whole balance difference.                        *)
(***************************************************************************)
C21_AlwaysReconciles ==
    (ev.pc = "done" /\ ev.new_balance # ev.old_balance) => EvEndsWithReconciling

(***************************************************************************)
(* C21 amended: for an address whose balance changed, the events end with  *)
(* a reconciling event with message_id None exactly when no per-output     *)
(* event was emitted or the per-output events do not account for the whole *)
(* balance difference; otherwise the events are the per-output events      *)
(* only, one for each new output.                                          *)
(***************************************************************************)
C21_ReconcilesUnexplained ==
    (ev.pc = "done" /\ ev.new_balance # ev.old_balance) =>
        /\ EvEndsWithReconciling
               <=> \/ EvNewOutputs = {}
                   \/ EvExplained(EvNewOutputs) # ev.new_balance - ev.old_balance
        /\ ~EvEndsWithReconciling
               => /\ Len(ev.balance_change_events) = Cardinality(EvNewOutputs)
                  /\ \A i \in DOMAIN ev.balance_change_events :
                         ev.balance_change_events[i].message_id = "Some"

\* The per-output events account for the whole difference and no
\* reconciling event follows.
C21_Witness ==
    /\ ev.pc = "done"
    /\ ev.new_balance # ev.old_balance
    /\ ev.sync_spent_outputs
    /\ EvNewOutputs # {}
    /\ EvExplained(EvNewOutputs) = ev.new_balance - ev.old_balance
    /\ ~EvEndsWithReconciling

\* The events of one type that execute emitted, as the ids of their messages.
ExEmittedIds(type) ==
    {ex.emitted[i].id : i \in {j \in DOMAIN ex.emitted : ex.emitted[j].type = type}}

\* The synced messages as parse_messages built them, by id.
ExParsedWith(id) == {i \in DOMAIN ex.parsed_messages : ex.parsed_messages[i].id = id}

(***************************************************************************)
(* C22: in execute a NewTransaction event is emitted for exactly the       *)
(* synced messages whose id was not stored before the sync, and a          *)
(* ConfirmationStateChange event for exactly the synced messages whose id  *)
(* was stored with a different confirmed value; no message gets both       *)
(* events in one sync, and a message stored as confirmed never gets a      *)
(* ConfirmationStateChange. (No event is emitted for another message at    *)
(* any time; all are emitted when execute returns Ok.)                     *)
(***************************************************************************)
C22_MessageEvents ==
    LET before == ex.messages_before_sync
        isNew(id) == ExParsedWith(id) # {} /\ id \notin DOMAIN before
        isChanged(id) == /\ id \in DOMAIN before
                         /\ \E i \in ExParsedWith(id) :
                                ex.parsed_messages[i].confirmed # before[id]
    IN  ex.pc # "off" =>
            /\ \A id \in ExEmittedIds("NewTransaction") : isNew(id)
            /\ \A id \in ExEmittedIds("ConfirmationStateChange") : isChanged(id)
            /\ ExEmittedIds("NewTransaction") \cap ExEmittedIds("ConfirmationStateChange") = {}
            /\ \A id \in ExEmittedIds("ConfirmationStateChange") : before[id] # "True"
            /\ ex.return_value = "Ok" =>
                   \A id \in MessageIds :
                       /\ isNew(id) => id \in ExEmittedIds("NewTransaction")
                       /\ isChanged(id) => id \in ExEmittedIds("ConfirmationStateChange")

\* A sync returned one new message and one stored as unconfirmed; both
\* events were emitted.
C22_Witness ==
    /\ ex.pc = "returned"
    /\ ex.return_value = "Ok"
    /\ ExEmittedIds("NewTransaction") # {}
    /\ ExEmittedIds("ConfirmationStateChange") # {}

\* The index (from 0) of an input in the canonical order: the number of
\* inputs that are serialized below it.
VfIndexOf(i) == Cardinality({j \in DOMAIN vf.inputs : vf.inputs[j].key < vf.inputs[i].key})

\* The signature block available for input i, if any.
VfBlockOf(i) ==
    LET block == UnlockBlocksGet(vf.unlock_blocks, VfIndexOf(i))
    IN  IF block.type = "Signature" THEN block ELSE VfNoBlock

VfVerifies(i) ==
    /\ VfBlockOf(i) # VfNoBlock
    /\ VfBlockOf(i).address = vf.inputs[i].address
    /\ VfBlockOf(i).signed = "essence_hash"

VfAcceptsIff ==
    vf.result = "Ok" <=> \A i \in DOMAIN vf.inputs : VfVerifies(i)

(***************************************************************************)
(* C23 as stated: verify_unlock_blocks accepts if and only if, for every   *)
(* input in canonical order, the unlock block at its index (a reference    *)
(* resolved) is a signature over the essence hash that verifies against    *)
(* the input's address; if no signature block is available at an input's   *)
(* index it fails with MissingUnlockBlock.                                 *)
(***************************************************************************)
C23_VerifyUnlockBlocks ==
    vf.pc = "returned" =>
        /\ VfAcceptsIff
        /\ (\E i \in DOMAIN vf.inputs : VfBlockOf(i) = VfNoBlock)
               => vf.result = "MissingUnlockBlock"

(***************************************************************************)
(* C23 amended: the same acceptance; when it fails, the error is that of   *)
(* the first input in canonical order that fails: MissingUnlockBlock if no *)
(* signature block is available at its index, the error of the signature   *)
(* verification otherwise.                                                 *)
(***************************************************************************)
C23_VerifyUnlockBlocksFirstError ==
    vf.pc = "returned" =>
        /\ VfAcceptsIff
        /\ \A i \in DOMAIN vf.inputs :
               (/\ ~VfVerifies(i)
                /\ \A j \in DOMAIN vf.inputs : VfIndexOf(j) < VfIndexOf(i) => VfVerifies(j))
                   => vf.result = IF VfBlockOf(i) = VfNoBlock THEN "MissingUnlockBlock"
                                  ELSE "InvalidSignature"

\* Two inputs on one address handed over in reverse order, a signature and
\* a reference to it: accepted.
C23_Witness ==
    /\ vf.pc = "returned"
    /\ vf.result = "Ok"
    /\ Len(vf.inputs) = 2
    /\ vf.inputs[1].key > vf.inputs[2].key
    /\ vf.unlock_blocks[2].type = "Reference"

FlSteps ==
    <<"input_selection", "dust_admission", "sign_message", "verify_unlock_blocks",
      "finish_pow", "post_message">>

FlEvents ==
    <<"SelectingInputs", "GeneratingRemainderDepositAddress", "PreparedTransaction",
      "SigningTransaction", "PerformingPoW", "Broadcasting">>

FlRank(seq, x) == CHOOSE i \in DOMAIN seq : seq[i] = x

FlIsPrefix(a, b) == Len(a) <= Len(b) /\ \A i \in DOMAIN a : a[i] = b[i]

FlHas(seq, x) == \E i \in DOMAIN seq : seq[i] = x

C25_NoWaitUnderWriteLock ==
    fl.pc # "off" => \A w \in fl.waits : w.lock # "write"

(***************************************************************************)
(* C26: a transfer rejected with DustError leaves the account's address    *)
(* list, its persisted state and change_addresses_to_sync as they were     *)
(* before the call.                                                        *)
(***************************************************************************)
C26_DustErrorNoSideEffect ==
    (fl.pc = "returned" /\ fl.result = "DustError") => fl.account = FlAccount

\* The inputs of call t sum to more than the amount of its transfer.
TrSurplus(t) ==
    /\ tr.calls[t].pc \in {"selected", "performed", "panicked", "returned"}
    /\ tr.calls[t].input_addresses # << >>
    /\ SumOutputIds(Utxos(tr.calls[t].input_addresses))
           > TransferAmount(TransferObjs[tr.calls[t].obj])

(***************************************************************************)
(* C27: whenever a transfer's inputs sum to more than the transfer amount, *)
(* also when the caller pinned the inputs, perform_transfer does not panic *)
(* for lack of a remainder source address, and the essence gets a          *)
(* remainder output of sum(inputs) - amount sent where the remainder       *)
(* strategy says.                                                          *)
(***************************************************************************)
C27_RemainderForSurplus ==
    \A t \in Transfers :
        TrSurplus(t) =>
            LET call == tr.calls[t]
                obj == TransferObjs[call.obj]
                prepared == PreparedTransfer(obj, call.input_addresses, call.remainder)
            IN  /\ call.pc # "panicked"
                /\ ~prepared.panics
                /\ prepared.remainder_value
                       = SumOutputIds(Utxos(call.input_addresses)) - TransferAmount(obj)
                /\ prepared.remainder_deposit_address
                       = <<RemainderDepositAddress(EffectiveStrategy(obj), call.remainder)>>

(***************************************************************************)
(* C28: for every order in which the inputs are processed, when the inputs *)
(* cover the transfer amount, remainder_value = sum(inputs) - amount, so   *)
(* that sum(inputs) = sum(destination amounts) + remainder_value, and the  *)
(* essence has a remainder output exactly when remainder_value > 0.        *)
(***************************************************************************)
C28_ValueConservation ==
    (es.pc = "assembled" /\ SumOutputIds(es.utxos) >= EsSum(es.outputs)) =>
        /\ es.remainder_value = SumOutputIds(es.utxos) - EsSum(es.outputs)
        /\ SumOutputIds(es.utxos) = EsSum(es.outputs) + es.remainder_value
        /\ SumOutputIds(es.utxos) = EsSum(es.outputs_for_essence)
        /\ Len(es.outputs_for_essence) = Len(es.outputs) + 1 <=> es.remainder_value > 0
        /\ Len(es.outputs_for_essence) = Len(es.outputs) <=> es.remainder_value = 0

\* Three inputs where the second fills the amount exactly and the third is
\* all remainder.
C28_Witness ==
    /\ es.pc = "assembled"
    /\ Len(es.utxos) = 3
    /\ SumOutputIds(SubSeq(es.utxos, 1, 2)) = EsSum(es.outputs)
    /\ es.remainder_value = TrOutputs[es.utxos[3]].amount
    /\ Len(es.outputs_for_essence) = Len(es.outputs) + 1

\* The transaction creates a dust output on the address.
DuCreatesDust ==
    \E i \in DOMAIN du.outputs :
        du.outputs[i].created /\ du.outputs[i].amount < DUST_ALLOWANCE_VALUE

\* The node's flag is the one of the address's outputs as the account holds
\* them: nothing is stale.
DuNodeAgrees ==
    du.address_data.dust_allowed
        = (du.address_outputs.dust
               < MinI64(DivI64(du.address_outputs.allowance * DUST_ALLOWANCE_VALUE,
                               DUST_DIVISOR),
                        MAX_ALLOWED_DUST_OUTPUTS))

(***************************************************************************)
(* C29: a transaction that creates a new dust output on an address is      *)
(* admitted only if the node reports dust_allowed for the address; with    *)
(* dust_allowed = FALSE it is rejected with DustError whatever the number  *)
(* of dust outputs it creates there and whatever the address's locally     *)
(* held outputs are.                                                       *)
(***************************************************************************)
C29_DustNeedsNodeFlag ==
    (du.pc = "returned" /\ DuCreatesDust /\ DuNodeAgrees) =>
        /\ du.result = "Ok" => du.address_data.dust_allowed
        /\ ~du.address_data.dust_allowed => du.result = "DustError"

\* Call t went through select_inputs and got a selection.
TrAutoSelected(t) ==
    /\ tr.calls[t].pc # "idle"
    /\ ~TransferObjs[tr.calls[t].obj].input.some
    /\ tr.calls[t].selected # << >>

(***************************************************************************)
(* C30: input selection never selects an output that is in LockedOutputs,  *)
(* never a zero-amount output, and an output on a destination address of   *)
(* the transfer only if its amount is <= the transfer amount; after a      *)
(* successful selection every selected output is in LockedOutputs.         *)
(***************************************************************************)
C30_SelectedInputs ==
    \A t \in Transfers :
        TrAutoSelected(t) =>
            LET call == tr.calls[t]
                obj == TransferObjs[call.obj]
            IN  /\ \A i \in DOMAIN call.selected :
                       /\ call.selected[i] \notin SeqToSet(call.locked_before)
                       /\ TrOutputs[call.selected[i]].amount > 0
                       /\ TrOutputs[call.selected[i]].address \in Destinations(obj)
                              => TrOutputs[call.selected[i]].amount <= TransferAmount(obj)
                /\ SeqToSet(call.selected) \subseteq SeqToSet(call.locked_after)
                /\ call.pc = "selected"
                       => SeqToSet(call.selected) \subseteq SeqToSet(tr.locked_outputs)

\* A selection made while another transfer holds locked outputs, with an
\* output on a destination address among the selected.
C30_Witness ==
    \E t \in Transfers :
        /\ TrAutoSelected(t)
        /\ tr.calls[t].pc = "selected"
        /\ tr.calls[t].locked_before # << >>
        /\ \E i \in DOMAIN tr.calls[t].selected :
               TrOutputs[tr.calls[t].selected[i]].address
                   \in Destinations(TransferObjs[tr.calls[t].obj])

\* Call t has a destination that is an address of the account and its
\* inputs were selected (not pinned).
TrOwnDestination(t) ==
    /\ tr.calls[t].pc \in {"selected", "performed", "returned"}
    /\ tr.calls[t].selected # << >>
    /\ tr.calls[t].input_addresses # << >>
    /\ Destinations(TransferObjs[tr.calls[t].obj]) \cap TrAccountAddresses # {}

(***************************************************************************)
(* C31: if a destination of a transfer is an address of the account, the   *)
(* remainder, if any, is sent to the remainder-source address, which is    *)
(* the address of a selected input that is not a destination, whatever     *)
(* strategy the caller asked for; no change address is used.               *)
(***************************************************************************)
C31_OwnDestinationReusesAddress ==
    \A t \in Transfers :
        TrOwnDestination(t) =>
            LET call == tr.calls[t]
                obj == TransferObjs[call.obj]
                prepared == PreparedTransfer(obj, call.input_addresses, call.remainder)
                surplus == SumOutputIds(call.selected) > TransferAmount(obj)
            IN  /\ surplus <=> prepared.remainder_deposit_address # << >>
                /\ surplus =>
                       /\ prepared.remainder_deposit_address[1]
                              \in {TrOutputs[call.selected[i]].address :
                                       i \in DOMAIN call.selected} \ Destinations(obj)
                       /\ prepared.remainder_deposit_address[1] = call.remainder[1].address
                       /\ prepared.remainder_deposit_address[1] # TrLatestChangeAddress

\* A transfer to an own address asked with ChangeAddress, with a remainder.
C31_Witness ==
    \E t \in Transfers :
        /\ TrOwnDestination(t)
        /\ TransferObjs[tr.calls[t].obj].remainder_value_strategy = ChangeAddress
        /\ SumOutputIds(tr.calls[t].selected) > TransferAmount(TransferObjs[tr.calls[t].obj])
        /\ tr.calls[t].pc = "returned"
        /\ tr.calls[t].result = "Ok"

\* The addresses that receive something from the transfer.
LaRecipients ==
    la.outputs \cup {la.remainder_value_deposit_address[i] :
                         i \in DOMAIN la.remainder_value_deposit_address}

SyGiven == IF sy.path = "list" THEN << >> ELSE sy.outputs

\* The outputs the sync of sy asked the node for (get_output).
SyOutputAsked ==
    IF sy.path = "reconcile"
    THEN ReconcileRequested(SyGiven, sy.listing, sy.sync_spent_outputs)
    ELSE SyncAddressFetched(MarkUnlistedSpent(SyGiven, sy.listing), sy.listing)

\* The outputs whose message the sync of sy asked the node for (get_message).
SyMessageAsked ==
    IF sy.path = "reconcile"
    THEN ReconcileMessageAsked(SyGiven, sy.listing, sy.answers, sy.confirmed,
                               sy.sync_spent_outputs)
    ELSE {o \in SyOutputAsked : /\ sy.answers[o].output \in {"unspent", "spent"}
                                /\ MessageOf[o] \notin sy.confirmed}

\* An individual fetch failed with an error that is not a 404.
SyFetchError ==
    \/ \E o \in SyOutputAsked : sy.answers[o].output = "err"
    \/ \E o \in SyMessageAsked : sy.answers[o].message = "err"

(***************************************************************************)
(* C33: in the address sweep and in the reconciliation alike, a fetch of   *)
(* an output or message that fails with an error other than 404 fails the  *)
(* sync when sync_spent_outputs is on, and does not fail it when           *)
(* sync_spent_outputs is off.                                              *)
(***************************************************************************)
C33_FetchErrorPolicy ==
    (sy.pc = "synced" /\ SyFetchError) => (sy.result.ok <=> ~sy.sync_spent_outputs)

(***************************************************************************)
(* C34: with sync_spent_outputs on, a failure to fetch an individual       *)
(* output is swallowed: the sync still succeeds.                           *)
(***************************************************************************)
C34_SpentSyncSwallowsOutputErrors ==
    (/\ sy.pc = "synced"
     /\ sy.sync_spent_outputs
     /\ \E o \in SyOutputAsked : sy.answers[o].output = "err"
     /\ \A o \in SyMessageAsked : sy.answers[o].message # "err") => sy.result.ok

(***************************************************************************)
(* C35: in every sync path and with either setting of sync_spent_outputs,  *)
(* a 404 for a message or for an output does not fail the sync, and a 404  *)
(* for an output that is stored locally marks that output spent.           *)
(***************************************************************************)
C35_NotFoundIsNoError ==
    (sy.pc = "synced" /\ ~SyFetchError) =>
        /\ sy.result.ok
        /\ \A o \in SyOutputAsked :
               (sy.answers[o].output = "404" /\ o \in DOMAIN SyGiven)
                   => sy.result.outputs[o].is_spent

(***************************************************************************)
(* C36: the address list a sync returns is sorted by (internal, key_index) *)
(* and holds no two entries with the same (key_index, internal).           *)
(***************************************************************************)
C36_SortedAndDeduplicated ==
    so.pc = "returned" =>
        /\ \A i, j \in DOMAIN so.addresses :
               i < j => \/ KeyInternal(so.addresses[i]) < KeyInternal(so.addresses[j])
                        \/ /\ so.addresses[i].internal = so.addresses[j].internal
                           /\ so.addresses[i].key_index <= so.addresses[j].key_index
        /\ \A i, j \in DOMAIN so.addresses : i # j => so.addresses[i] # so.addresses[j]

\* The batches probed so far are consecutive runs of gap_limit indexes from
\* the index after the highest stored one, every batch but the last holds a
\* used index, and the addresses found are those of the batches.
SwShape ==
    /\ \A k \in DOMAIN sw.batches :
           sw.batches[k] =
               ((IF sw.account = {} THEN 0 ELSE MaxOf(sw.account) + 1) + (k - 1) * sw.gap_limit)
               ..((IF sw.account = {} THEN 0 ELSE MaxOf(sw.account) + 1) + k * sw.gap_limit - 1)
    /\ \A k \in DOMAIN sw.batches : k < Len(sw.batches) => sw.batches[k] \cap sw.node_used # {}
    /\ sw.generated_addresses =
           {i \in UNION {sw.batches[k] : k \in DOMAIN sw.batches} :
               i \in sw.node_used \/ sw.return_all_addresses}
    /\ (sw.pc = "returned" /\ ~sw.locked) =>
           /\ sw.batches # << >>
           /\ sw.batches[Len(sw.batches)] \cap sw.node_used = {}
    /\ (sw.pc = "loop" /\ sw.batches # << >>) =>
           sw.batches[Len(sw.batches)] \cap sw.node_used # {}

ExNewTransactionsOf(id) ==
    {i \in 1..Len(ex.emitted) :
        ex.emitted[i].type = "NewTransaction" /\ ex.emitted[i].id = id}

C38_OneNewTransactionPerMessage ==
    ex.pc # "off" =>
        \A id \in MessageIds : Cardinality(ExNewTransactionsOf(id)) <= 1

(***************************************************************************)
(* The locks of one account and the operations that take them:             *)
(* SyncedAccount::transfer with perform_transfer (lines 1862-2014 and      *)
(* 2032-2588), AccountSynchronizer::execute with get_new_history and       *)
(* perform_sync (lines 1260-1273, 647-742, 1338-1445) and repost_message   *)
(* (lines 2681-2810).  An operation is the list of its lock steps in the   *)
(* order the code takes them.  The account lock is a tokio RwLock and the  *)
(* other two are tokio Mutexes: waiters are served in arrival order, a     *)
(* reader queued behind a writer waits for it.                             *)
(***************************************************************************)
MaxOperations == 3

LkProcs == 1..MaxOperations

LkLocks == {"account", "locked_outputs", "change_addresses_to_sync"}

LkAcquireStep(lock, mode) == [op |-> "acquire", lock |-> lock, mode |-> mode]

LkReleaseStep(lock) == [op |-> "release", lock |-> lock, mode |-> "none"]

\* A wait for the node or the signer, which answers; listed where a guard is
\* held over the wait.
LkAwaitStep == [op |-> "await", lock |-> "none", mode |-> "none"]

\* transfer, lines 1864-1983: account_ (read) then locked_outputs; both are
\* dropped before perform_transfer, and by every early return.
TransferSelectLocks ==
    << LkAcquireStep("account", "read"),
       LkAcquireStep("locked_outputs", "write"),
       LkReleaseStep("locked_outputs"),
       LkReleaseStep("account") >>

\* perform_transfer, lines 2058-2176: the read guard taken at 2058 is kept
\* over the node calls of the output loop and never dropped.
PerformTransferPrepareKeepsGuard ==
    << LkAcquireStep("account", "read"),
       LkAwaitStep,
       LkAcquireStep("account", "write") >>

\* perform_transfer, lines 2058-2176: the read guard is dropped at 2175,
\* the write guard is requested at 2176.
PerformTransferPrepare ==
    << LkAcquireStep("account", "read"),
       LkAwaitStep,
       LkReleaseStep("account"),
       LkAcquireStep("account", "write") >>

\* Lines 2339-2343 and 2548-2552: the change address is inserted into
\* change_addresses_to_sync under the account's write guard.
InsertChangeAddress ==
    << LkAcquireStep("change_addresses_to_sync", "write"),
       LkReleaseStep("change_addresses_to_sync") >>

\* perform_transfer: an error under the first write guard (for instance
\* lines 2328, 2387, 2446) drops it and returns.
PerformTransferFailedLocks ==
    PerformTransferPrepare \o << LkAwaitStep, LkReleaseStep("account") >>

\* perform_transfer, lines 2176-2562: sign under the write guard, drop it at
\* 2459 for the proof of work and the post, take it again at 2505.
PerformTransferLocks ==
    PerformTransferPrepare
    \o InsertChangeAddress
    \o << LkAwaitStep,
          LkReleaseStep("account"),
          LkAcquireStep("account", "write") >>
    \o InsertChangeAddress
    \o << LkReleaseStep("account") >>

\* transfer, lines 1999-2013: the selected outputs are unlocked.
TransferUnlockLocks ==
    << LkAcquireStep("locked_outputs", "write"),
       LkReleaseStep("locked_outputs") >>

\* get_new_history (line 1262) copies change_addresses_to_sync; perform_sync
\* clones the account under short read guards (lines 320-344, 446-475, 719)
\* and calls the node without them.
PerformSyncLocks ==
    << LkAcquireStep("change_addresses_to_sync", "write"),
       LkReleaseStep("change_addresses_to_sync"),
       LkAcquireStep("account", "read"),
       LkReleaseStep("account"),
       LkAcquireStep("account", "read"),
       LkReleaseStep("account") >>

\* execute, lines 1349-1433: the write guard is held to the end of the arm.
ExecuteLocks ==
    << LkAcquireStep("account", "write"),
       LkReleaseStep("account") >>

\* repost_message, lines 2686-2810: the write guard is held over the node
\* calls.
RepostLocks ==
    << LkAcquireStep("account", "write"),
       LkAwaitStep,
       LkReleaseStep("account") >>

\* An operation that returns early (a rejected transfer at lines 1917-1930, a
\* failed get_new_history at 1435) takes a prefix of the steps listed here, a
\* transfer without a new change address takes them without the insertions.
LkKinds == << "transfer_failed", "transfer_sent", "synced", "repost" >>

LkProgram(kind) ==
    CASE kind = "transfer_failed" ->
            TransferSelectLocks \o PerformTransferFailedLocks \o TransferUnlockLocks
      [] kind = "transfer_sent" ->
            TransferSelectLocks \o PerformTransferLocks \o TransferUnlockLocks
      [] kind = "synced" -> PerformSyncLocks \o ExecuteLocks
      [] kind = "repost" -> RepostLocks

LkFree == [holders |-> {}, mode |-> "free", queue |-> << >>]

\* A read guard is granted next to other read guards, a write guard or a
\* mutex only when nobody holds the lock.
LkCompatible(l, mode) ==
    IF mode = "read" THEN l.mode # "write" ELSE l.holders = {}

\* The waiters at the head of the queue that can be served are served.
RECURSIVE LkGrant(_)
LkGrant(l) ==
    IF l.queue # << >> /\ LkCompatible(l, Head(l.queue).mode)
    THEN LkGrant([holders |-> l.holders \cup {Head(l.queue).proc},
                  mode |-> Head(l.queue).mode,
                  queue |-> Tail(l.queue)])
    ELSE l

\* The operations are interchangeable: their kinds are listed in order.
LkInit ==
    /\ ev = EvIdle
    /\ ex = ExIdle
    /\ sy = SyIdle
    /\ rp = RpIdle
    /\ tr = TrIdle
    /\ lg = LgIdle
    /\ ch = ChIdle
    /\ rs = RsIdle
    /\ vf = VfIdle
    /\ fl = FlIdle
    /\ es = EsIdle
    /\ du = DuIdle
    /\ la = LaIdle
    /\ so = SoIdle
    /\ sw = SwIdle
    /\ mqtt_enabled = TRUE
    /\ \E kind \in [LkProcs -> DOMAIN LkKinds] :
        /\ \A p, q \in LkProcs : p <= q => kind[p] <= kind[q]
        /\ lk = [pc |-> "run",
                 kind |-> [p \in LkProcs |-> LkKinds[kind[p]]],
                 at |-> [p \in LkProcs |-> 1],
                 waiting |-> [p \in LkProcs |-> FALSE],
                 waited |-> [p \in LkProcs |-> FALSE],
                 locks |-> [l \in LkLocks |-> LkFree]]

LkReturned(p) == lk.at[p] > Len(LkProgram(lk.kind[p]))

LkStepOf(p) == LkProgram(lk.kind[p])[lk.at[p]]

\* .read().await, .write().await, .lock().await: the guard is handed over at
\* once when the lock allows it and nobody waits, else the task queues.
LkAcquire(p) ==
    /\ lk.pc = "run"
    /\ ~LkReturned(p)
    /\ ~lk.waiting[p]
    /\ LkStepOf(p).op = "acquire"
    /\ LET step == LkStepOf(p)
           l == lk.locks[step.lock]
       IN IF l.queue = << >> /\ LkCompatible(l, step.mode)
          THEN lk' = [lk EXCEPT
                        !.locks[step.lock] =
                            [l EXCEPT !.holders = @ \cup {p}, !.mode = step.mode],
                        !.at[p] = @ + 1]
          ELSE lk' = [lk EXCEPT
                        !.locks[step.lock].queue =
                            Append(@, [proc |-> p, mode |-> step.mode]),
                        !.waiting[p] = TRUE,
                        !.waited[p] = TRUE]
    /\ UNCHANGED <<mqtt_enabled>>
    /\ UNCHANGED lkOther

\* drop(guard): the lock is handed to the waiters it can now serve.
LkRelease(p) ==
    /\ lk.pc = "run"
    /\ ~LkReturned(p)
    /\ LkStepOf(p).op = "release"
    /\ LET step == LkStepOf(p)
           l == lk.locks[step.lock]
           left == l.holders \ {p}
           after == LkGrant([l EXCEPT !.holders = left,
                                      !.mode = IF left = {} THEN "free" ELSE @])
           served == after.holders \ left
       IN lk' = [lk EXCEPT
                   !.locks[step.lock] = after,
                   !.at = [q \in LkProcs |->
                             IF q = p \/ q \in served THEN @[q] + 1 ELSE @[q]],
                   !.waiting = [q \in LkProcs |-> @[q] /\ q \notin served]]
    /\ UNCHANGED <<mqtt_enabled>>
    /\ UNCHANGED lkOther

\* The node or the signer answers.
LkAwait(p) ==
    /\ lk.pc = "run"
    /\ ~LkReturned(p)
    /\ LkStepOf(p).op = "await"
    /\ lk' = [lk EXCEPT !.at[p] = @ + 1]
    /\ UNCHANGED <<mqtt_enabled>>
    /\ UNCHANGED lkOther

LkNext ==
    \/ \E p \in LkProcs : LkAcquire(p)
    \/ \E p \in LkProcs : LkRelease(p)
    \/ \E p \in LkProcs : LkAwait(p)

LockSpec == LkInit /\ [][LkNext]_vars /\ WF_vars(LkNext)

(***************************************************************************)
(* C39: transfers, syncs and reposts running concurrently on one account   *)
(* never deadlock: no operation holds one of the account lock, the         *)
(* LockedOutputs mutex and the change_addresses_to_sync mutex while it      *)
(* waits for a lock taken earlier in the order account, then the mutexes,  *)
(* and every operation eventually returns when the node and the signer     *)
(* answer.                                                                 *)
(***************************************************************************)
LkHolds(p, lock) == p \in lk.locks[lock].holders

\* p waits for a lock while it holds another one only in the order
\* account lock first, a mutex second.
LkWaitsInOrder(p) ==
    lk.waiting[p] =>
        /\ ~LkHolds(p, "locked_outputs")
        /\ ~LkHolds(p, "change_addresses_to_sync")
        /\ (LkHolds(p, "account") => LkStepOf(p).lock # "account")

LkAllReturned == \A p \in LkProcs : LkReturned(p)

====
